---- MODULE Spec2Model ----
(***************************************************************************)
(* MicroBitMeshRadio: the interrupt-driven receive path of the mesh radio  *)
(* driver, its bounded Receive Queue, the Sequence Filter, the idle-time   *)
(* dispatch and the datagram service built on top of it.                   *)
(*                                                                         *)
(* One device (the receiver) is modelled in full.  A peer device appears   *)
(* only through the wire frames its datagram send puts on the air.         *)
(* The radio peripheral is opaque: it delivers a frame by DMA into the     *)
(* active buffer and raises EVENTS_END; an interrupt handler runs to       *)
(* completion (RADIO and TIMER0 share one priority); the background task   *)
(* is interleaved with the interrupts statement by statement where it      *)
(* touches state shared with them.                                         *)
(***************************************************************************)
EXTENDS Integers, Sequences, FiniteSets, Bags, TLC

----------------------------------------------------------------------------
(* Program constants *)

MICROBIT_MESH_RADIO_STATUS_INITIALISED == 1
MICROBIT_MESH_RADIO_STATUS_DEEPSLEEP_IRQ == 2
MICROBIT_MESH_RADIO_STATUS_DEEPSLEEP_INIT == 4
MICROBIT_MESH_RADIO_DEFAULT_GROUP == 0
MICROBIT_MESH_RADIO_DEFAULT_FREQUENCY == 8
MICROBIT_MESH_RADIO_DEFAULT_TX_POWER == 6
MICROBIT_MESH_RADIO_POWER_LEVELS == 8
MICROBIT_MESH_RADIO_HEADER_SIZE == 4
MICROBIT_MESH_RADIO_MAXIMUM_RX_BUFFERS == 4
MICROBIT_MESH_RADIO_PROTOCOL_DATAGRAM == 1
MICROBIT_MESH_RADIO_PROTOCOL_EVENTBUS == 2

\* The driver source names the MICROBIT_RADIO_* twins of the constants above;
\* they come from MicroBitRadio.h / MicroBitConfig.h.
MICROBIT_RADIO_STATUS_INITIALISED == 1
MICROBIT_RADIO_STATUS_DEEPSLEEP_IRQ == 2
MICROBIT_RADIO_STATUS_DEEPSLEEP_INIT == 4
MICROBIT_RADIO_MAXIMUM_RX_BUFFERS == 4
MICROBIT_RADIO_HEADER_SIZE == 4
MICROBIT_RADIO_MAX_PACKET_SIZE == 32
MICROBIT_RADIO_PROTOCOL_DATAGRAM == 1
MICROBIT_RADIO_PROTOCOL_EVENTBUS == 2
MICROBIT_RADIO_POWER_LEVELS == 8

\* The TXPOWER register value of each power level 0..7.
MICROBIT_RADIO_POWER_LEVEL == <<216, 236, 240, 244, 248, 252, 0, 4>>

\* codal-core CodalComponent.h, ErrorNo.h
DEVICE_COMPONENT_STATUS_IDLE_TICK == 8192
DEVICE_OK == 0
DEVICE_INVALID_PARAMETER == -1001
DEVICE_NOT_SUPPORTED == -1002
DEVICE_NO_RESOURCES == -1005

\* nRF52 RADIO: the value of the FREQUENCY register after reset.
FREQUENCY_RESET == 2

\* nRF52 RADIO: the value of the TXPOWER register after reset.
TXPOWER_RESET == 0

----------------------------------------------------------------------------
(* Bounds of the model *)

\* Sequence numbers carried by frames on the air range over 0..MaxSeqNo.
MaxSeqNo == 2
\* The peer sends datagrams of at most MaxPayload bytes.
MaxPayload == 10
\* Radio groups range over 0..MaxGroup.
MaxGroup == 1
\* In the configuration scenario: calls of send(), and frames in the list.
MaxCfgSends == 1
MaxCfgFrames == 1
\* Where buffer addresses are followed: buffers allocated in all.
MaxFrames == 6

\* Where the sequence number passes the limit of its byte: frames sent.
MaxWrapSends == 257

\* The bytes in the buffer an application passes to datagram.send().
DatagramBytes == 40

----------------------------------------------------------------------------
(* Frames *)

NULL == [null |-> TRUE]

Min(a, b) == IF a < b THEN a ELSE b

\* uint8_t arithmetic
U8(n) == n % 256

\* new SequencedFrameBuffer(): value-initialised, every field zero.
NewSequencedFrameBuffer ==
    [length   |-> 0,
     version  |-> 0,
     group    |-> 0,
     protocol |-> 0,
     seqNo    |-> 0,
     payload  |-> [i \in 1..MICROBIT_RADIO_MAX_PACKET_SIZE |-> 0],
     rssi     |-> 0,
     addr     |-> 0]

\* The bytes of a frame buffer that follow its length byte, in memory order.
Body(buf) == <<buf.version, buf.group, buf.protocol, buf.seqNo>> \o buf.payload

\* What the radio transmits for a buffer: the length byte and the `length'
\* bytes after it.
Wire(buf) == <<buf.length>> \o SubSeq(Body(buf), 1, buf.length)

\* PCNF1.MAXLEN as programmed by enable().
MAXLEN == MICROBIT_RADIO_MAX_PACKET_SIZE

\* Reception by DMA of the wire bytes w into buf: the length byte and the
\* bytes after it are stored over the buffer; what the frame does not cover
\* keeps its previous content.
DMAWrite(buf, w) ==
    LET n   == Min(Min(w[1], Len(w) - 1), MAXLEN)
        old == Body(buf)
        new == [i \in 1..Len(old) |-> IF i <= n THEN w[i + 1] ELSE old[i]]
    IN  [length   |-> w[1],
         version  |-> new[1],
         group    |-> new[2],
         protocol |-> new[3],
         seqNo    |-> new[4],
         payload  |-> SubSeq(new, 5, Len(new)),
         rssi     |-> buf.rssi,
         addr     |-> buf.addr]

----------------------------------------------------------------------------
VARIABLES
    \* MicroBitMeshRadio
    status,         \* set of status flags
    group,
    queueDepth,
    rssi,
    rxQueue,        \* the linked list of queued frames, head first
    rxBuf,          \* the active buffer, or NULL
    blockTransmit,
    currentSeqNo,
    band,
    power,
    \* MicroBitMeshRadioDatagram
    dgQueue,        \* datagram.rxQueue
    \* peripheral
    ble,            \* ble_running()
    PREFIX0,
    irqEnabled,     \* NVIC enable bit of RADIO_IRQn
    timerRunning,   \* TIMER0 started and not stopped: COMPARE[0] will fire
    EVENTS_END,
    CRCSTATUS,
    RSSISAMPLE,
    listening,      \* the receiver is armed (TASKS_START in receive mode)
    FREQUENCY,
    TXPOWER,
    PACKETPTR,      \* what the DMA pointer refers to: "null", "rxBuf", "buffer"
    \* background task
    pc,
    caller,         \* who called recv()
    p,              \* recv()'s local p
    pIsHead,        \* idleCallback: p == rxQueue
    ret,            \* value returned by the last completed call
    txBuf,          \* send(): the frame *buffer of the call in progress
    nextAddr,       \* the heap: address of the next buffer, 0 if not followed
    queueRet,       \* value returned by the last queueRxBuf()
    \* the air
    air,            \* the frame last transmitted by the peer, or NULL
    peerSeqNo,      \* the peer's currentSeqNo
    \* history
    lastQueued,     \* sequence number of the frame last appended to rxQueue
    routed,         \* where addresses are followed: the buffers idleCallback()
                    \* met at the head of rxQueue, and what it did with each
    released,       \* where addresses are followed: the bag of the addresses
                    \* given to operator delete
    taken           \* where addresses are followed: the addresses recv()
                    \* returned to the application

vars == <<status, group, queueDepth, rssi, rxQueue, rxBuf, blockTransmit,
          currentSeqNo, dgQueue, ble, PREFIX0, irqEnabled, timerRunning,
          EVENTS_END, CRCSTATUS, RSSISAMPLE, listening, pc, caller, p, pIsHead,
          ret, queueRet, air, peerSeqNo, lastQueued, band, FREQUENCY, PACKETPTR,
          txBuf, nextAddr, power, TXPOWER, routed, released, taken>>

driverVars == <<status, group, queueDepth, rssi, rxQueue, rxBuf, blockTransmit,
                currentSeqNo>>
hwVars     == <<ble, PREFIX0, irqEnabled, timerRunning, EVENTS_END, CRCSTATUS,
                RSSISAMPLE, listening>>
bgVars     == <<pc, caller, p, pIsHead, ret>>
dgVars     == <<dgQueue>>
airVars    == <<air, peerSeqNo>>
histVars   == <<lastQueued, routed, released, taken>>
cfgVars    == <<band, FREQUENCY, PACKETPTR, txBuf>>
heapVars   == <<nextAddr>>
powerVars  == <<power, TXPOWER>>

\* new SequencedFrameBuffer() when it succeeds: a value-initialised buffer
\* at an address no buffer had before.  Where addresses are not followed
\* (nextAddr = 0) every buffer has address 0.
Allocate == [NewSequencedFrameBuffer EXCEPT !.addr = nextAddr]

\* nextAddr after a call of new that succeeded.
Allocated == IF nextAddr = 0 THEN 0 ELSE nextAddr + 1

\* The device after construction.
InitDevice ==
    /\ status = {}
    /\ group = MICROBIT_MESH_RADIO_DEFAULT_GROUP
    /\ queueDepth = 0
    /\ rssi = 0
    /\ rxQueue = <<>>
    /\ rxBuf = NULL
    /\ blockTransmit = FALSE
    /\ currentSeqNo = 0
    /\ dgQueue = <<>>
    /\ ble \in BOOLEAN
    /\ PREFIX0 = 0
    /\ irqEnabled = FALSE
    /\ timerRunning = FALSE
    /\ EVENTS_END = FALSE
    /\ CRCSTATUS = 0
    /\ RSSISAMPLE = 0
    /\ listening = FALSE
    /\ pc = "ready"
    /\ caller = "none"
    /\ p = NULL
    /\ pIsHead = FALSE
    /\ ret = [op |-> "none"]
    /\ queueRet = DEVICE_OK
    /\ air = NULL
    /\ peerSeqNo = 0
    /\ lastQueued = -1
    /\ routed = <<>>
    /\ released = EmptyBag
    /\ taken = {}
    /\ band = MICROBIT_MESH_RADIO_DEFAULT_FREQUENCY
    /\ power = MICROBIT_MESH_RADIO_DEFAULT_TX_POWER
    /\ FREQUENCY = FREQUENCY_RESET
    /\ TXPOWER = TXPOWER_RESET
    /\ PACKETPTR = "null"
    /\ txBuf = NULL

\* Buffer addresses are not followed.
Init == InitDevice /\ nextAddr = 0

\* Buffer addresses are followed: the first buffer gets address 1.
InitOwn == InitDevice /\ nextAddr = 1

----------------------------------------------------------------------------
(* MicroBitMeshRadio: helpers used from interrupt context *)

Initialised == MICROBIT_RADIO_STATUS_INITIALISED \in status

\* setRSSI(r): the value of this->rssi after the call.
setRSSI(r) == IF ~Initialised THEN rssi ELSE r

\* getRSSI() when this->rssi holds r.
getRSSI(r) == IF ~Initialised THEN DEVICE_NOT_SUPPORTED ELSE r

\* compareSeqNo() comparing the frame's number with the counter, so that a
\* frame with a newer number is accepted.
compareSeqNo_counter(newSeq) ==
    LET isGood == currentSeqNo < newSeq
    IN  [isGood       |-> isGood,
         currentSeqNo |-> IF isGood THEN newSeq ELSE currentSeqNo]

\* compareSeqNo(newSeq): the result, and currentSeqNo after the call.
compareSeqNo(newSeq) ==
    LET isGood == rxBuf.seqNo < newSeq
    IN  [isGood       |-> isGood,
         currentSeqNo |-> IF isGood THEN newSeq ELSE currentSeqNo]

\* Variants of queueRxBuf() with one fault each.

\* The count is not advanced when a frame is appended.
queueRxBuf_noCount(r, allocOk) ==
    IF rxBuf = NULL
    THEN [ret |-> DEVICE_INVALID_PARAMETER, rxQueue |-> rxQueue,
          queueDepth |-> queueDepth, rxBuf |-> rxBuf, queued |-> FALSE]
    ELSE IF queueDepth >= MICROBIT_RADIO_MAXIMUM_RX_BUFFERS
    THEN [ret |-> DEVICE_NO_RESOURCES, rxQueue |-> rxQueue,
          queueDepth |-> queueDepth, rxBuf |-> rxBuf, queued |-> FALSE]
    ELSE LET stamped == [rxBuf EXCEPT !.rssi = getRSSI(r)]
         IN  IF ~allocOk
             THEN [ret |-> DEVICE_NO_RESOURCES, rxQueue |-> rxQueue,
                   queueDepth |-> queueDepth, rxBuf |-> stamped,
                   queued |-> FALSE]
             ELSE [ret |-> DEVICE_OK, rxQueue |-> Append(rxQueue, stamped),
                   queueDepth |-> queueDepth,
                   rxBuf |-> Allocate, queued |-> TRUE]

\* The limit is tested with > in place of >=.
queueRxBuf_offByOne(r, allocOk) ==
    IF rxBuf = NULL
    THEN [ret |-> DEVICE_INVALID_PARAMETER, rxQueue |-> rxQueue,
          queueDepth |-> queueDepth, rxBuf |-> rxBuf, queued |-> FALSE]
    ELSE IF queueDepth > MICROBIT_RADIO_MAXIMUM_RX_BUFFERS
    THEN [ret |-> DEVICE_NO_RESOURCES, rxQueue |-> rxQueue,
          queueDepth |-> queueDepth, rxBuf |-> rxBuf, queued |-> FALSE]
    ELSE LET stamped == [rxBuf EXCEPT !.rssi = getRSSI(r)]
         IN  IF ~allocOk
             THEN [ret |-> DEVICE_NO_RESOURCES, rxQueue |-> rxQueue,
                   queueDepth |-> queueDepth, rxBuf |-> stamped,
                   queued |-> FALSE]
             ELSE [ret |-> DEVICE_OK, rxQueue |-> Append(rxQueue, stamped),
                   queueDepth |-> U8(queueDepth + 1),
                   rxBuf |-> Allocate, queued |-> TRUE]

\* On a full queue the oldest frame is dropped to make room for the new one.
queueRxBuf_dropOldest(r, allocOk) ==
    IF rxBuf = NULL
    THEN [ret |-> DEVICE_INVALID_PARAMETER, rxQueue |-> rxQueue,
          queueDepth |-> queueDepth, rxBuf |-> rxBuf, queued |-> FALSE]
    ELSE IF queueDepth >= MICROBIT_RADIO_MAXIMUM_RX_BUFFERS
    THEN [ret |-> DEVICE_NO_RESOURCES,
          rxQueue |-> Append(Tail(rxQueue), rxBuf),
          queueDepth |-> queueDepth, rxBuf |-> Allocate,
          queued |-> TRUE]
    ELSE LET stamped == [rxBuf EXCEPT !.rssi = getRSSI(r)]
         IN  IF ~allocOk
             THEN [ret |-> DEVICE_NO_RESOURCES, rxQueue |-> rxQueue,
                   queueDepth |-> queueDepth, rxBuf |-> stamped,
                   queued |-> FALSE]
             ELSE [ret |-> DEVICE_OK, rxQueue |-> Append(rxQueue, stamped),
                   queueDepth |-> U8(queueDepth + 1),
                   rxBuf |-> Allocate, queued |-> TRUE]

\* The replacement is installed before it is tested: a failed allocation
\* links the frame and leaves the radio without an active buffer.
queueRxBuf_installFirst(r, allocOk) ==
    IF rxBuf = NULL
    THEN [ret |-> DEVICE_INVALID_PARAMETER, rxQueue |-> rxQueue,
          queueDepth |-> queueDepth, rxBuf |-> rxBuf, queued |-> FALSE]
    ELSE IF queueDepth >= MICROBIT_RADIO_MAXIMUM_RX_BUFFERS
    THEN [ret |-> DEVICE_NO_RESOURCES, rxQueue |-> rxQueue,
          queueDepth |-> queueDepth, rxBuf |-> rxBuf, queued |-> FALSE]
    ELSE LET stamped == [rxBuf EXCEPT !.rssi = getRSSI(r)]
         IN  IF ~allocOk
             THEN [ret |-> DEVICE_NO_RESOURCES,
                   rxQueue |-> Append(rxQueue, stamped),
                   queueDepth |-> U8(queueDepth + 1),
                   rxBuf |-> NULL, queued |-> FALSE]
             ELSE [ret |-> DEVICE_OK, rxQueue |-> Append(rxQueue, stamped),
                   queueDepth |-> U8(queueDepth + 1),
                   rxBuf |-> Allocate, queued |-> TRUE]

\* The frame is appended, yet stays the active buffer: the new buffer is
\* dropped.
queueRxBuf_noRotate(r, allocOk) ==
    IF rxBuf = NULL
    THEN [ret |-> DEVICE_INVALID_PARAMETER, rxQueue |-> rxQueue,
          queueDepth |-> queueDepth, rxBuf |-> rxBuf, queued |-> FALSE]
    ELSE IF queueDepth >= MICROBIT_RADIO_MAXIMUM_RX_BUFFERS
    THEN [ret |-> DEVICE_NO_RESOURCES, rxQueue |-> rxQueue,
          queueDepth |-> queueDepth, rxBuf |-> rxBuf, queued |-> FALSE]
    ELSE LET stamped == [rxBuf EXCEPT !.rssi = getRSSI(r)]
         IN  IF ~allocOk
             THEN [ret |-> DEVICE_NO_RESOURCES, rxQueue |-> rxQueue,
                   queueDepth |-> queueDepth, rxBuf |-> stamped,
                   queued |-> FALSE]
             ELSE [ret |-> DEVICE_OK, rxQueue |-> Append(rxQueue, stamped),
                   queueDepth |-> U8(queueDepth + 1),
                   rxBuf |-> stamped, queued |-> TRUE]

\* queueRxBuf() when this->rssi holds r and operator new succeeds (allocOk)
\* or returns NULL: the value returned, and rxQueue, queueDepth and rxBuf
\* after the call.
queueRxBuf(r, allocOk) ==
    IF rxBuf = NULL
    THEN [ret |-> DEVICE_INVALID_PARAMETER, rxQueue |-> rxQueue,
          queueDepth |-> queueDepth, rxBuf |-> rxBuf, queued |-> FALSE]
    ELSE IF queueDepth >= MICROBIT_RADIO_MAXIMUM_RX_BUFFERS
    THEN [ret |-> DEVICE_NO_RESOURCES, rxQueue |-> rxQueue,
          queueDepth |-> queueDepth, rxBuf |-> rxBuf, queued |-> FALSE]
    ELSE LET stamped == [rxBuf EXCEPT !.rssi = getRSSI(r)]
         IN  IF ~allocOk
             THEN [ret |-> DEVICE_NO_RESOURCES, rxQueue |-> rxQueue,
                   queueDepth |-> queueDepth, rxBuf |-> stamped,
                   queued |-> FALSE]
             ELSE [ret |-> DEVICE_OK, rxQueue |-> Append(rxQueue, stamped),
                   queueDepth |-> U8(queueDepth + 1),
                   rxBuf |-> Allocate, queued |-> TRUE]

\* dataReady()
dataReady == queueDepth

----------------------------------------------------------------------------
(* The peripheral: a frame whose address prefix matches PREFIX0 is received *)
(* into the active buffer and the END event is raised.  crc is the          *)
(* checksum status the hardware reports for it.                             *)

RssiSamples == {42}

\* The value (uint32_t) rxBuf stored into PACKETPTR.
PointerTo(buf) == IF buf = NULL THEN "null" ELSE "rxBuf"

Receive(w, crc, sample) ==
    /\ listening
    /\ ~EVENTS_END
    /\ PACKETPTR = "rxBuf"
    /\ w.prefix = PREFIX0
    /\ rxBuf' = DMAWrite(rxBuf, w.bytes)
    /\ EVENTS_END' = TRUE
    /\ CRCSTATUS' = crc
    /\ RSSISAMPLE' = sample
    /\ listening' = FALSE
    /\ UNCHANGED <<status, group, queueDepth, rssi, rxQueue, blockTransmit,
                   currentSeqNo, dgQueue, ble, PREFIX0, irqEnabled,
                   timerRunning, queueRet>>
    /\ UNCHANGED <<bgVars, histVars, heapVars, powerVars>>
    /\ UNCHANGED cfgVars

----------------------------------------------------------------------------
(* Interrupt handlers *)

\* mesh_RADIO_IRQHandler leaving TIMER0, which it started on entry, running
\* when the filter rejects the frame.
mesh_RADIO_IRQHandler_timerLeftRunning(allocOk) ==
    /\ irqEnabled
    /\ EVENTS_END
    /\ EVENTS_END' = FALSE
    /\ IF CRCSTATUS = 1
       THEN LET f == compareSeqNo(rxBuf.seqNo)
            IN  IF f.isGood
                THEN /\ timerRunning' = TRUE
                     /\ blockTransmit' = TRUE
                     /\ rssi' = setRSSI(-RSSISAMPLE)
                     /\ currentSeqNo' = f.currentSeqNo
                     /\ listening' = TRUE
                     /\ UNCHANGED <<rxQueue, queueDepth, rxBuf, queueRet,
                                    lastQueued, PACKETPTR, nextAddr>>
                ELSE /\ timerRunning' = TRUE
                     /\ currentSeqNo' = f.currentSeqNo
                     /\ listening' = TRUE
                     /\ UNCHANGED <<blockTransmit, rssi, rxQueue, queueDepth,
                                    rxBuf, queueRet, lastQueued, PACKETPTR,
                                    nextAddr>>
       ELSE LET r == setRSSI(0)
                q == queueRxBuf(r, allocOk)
            IN  /\ timerRunning' = FALSE
                /\ rssi' = r
                /\ rxQueue' = q.rxQueue
                /\ queueDepth' = q.queueDepth
                /\ rxBuf' = q.rxBuf
                /\ nextAddr' = IF q.queued THEN Allocated ELSE nextAddr
                /\ PACKETPTR' = PointerTo(q.rxBuf)
                /\ queueRet' = q.ret
                /\ lastQueued' = IF q.queued THEN rxBuf.seqNo ELSE lastQueued
                /\ blockTransmit' = FALSE
                /\ listening' = TRUE
                /\ UNCHANGED currentSeqNo
    /\ UNCHANGED <<status, group, dgQueue, ble, PREFIX0, irqEnabled,
                   CRCSTATUS, RSSISAMPLE>>
    /\ UNCHANGED <<bgVars, airVars, band, FREQUENCY, txBuf, powerVars, routed,
                   released, taken>>

\* mesh_RADIO_IRQHandler, EVENTS_END set.
mesh_RADIO_IRQHandler(allocOk) ==
    /\ irqEnabled
    /\ EVENTS_END
    /\ EVENTS_END' = FALSE
    /\ IF CRCSTATUS = 1
       THEN LET f == compareSeqNo(rxBuf.seqNo)
            IN  IF f.isGood
                THEN /\ timerRunning' = TRUE
                     /\ blockTransmit' = TRUE
                     /\ rssi' = setRSSI(-RSSISAMPLE)
                     /\ currentSeqNo' = f.currentSeqNo
                     /\ listening' = TRUE
                     /\ UNCHANGED <<rxQueue, queueDepth, rxBuf, queueRet,
                                    lastQueued, PACKETPTR, nextAddr>>
                ELSE /\ timerRunning' = FALSE
                     /\ currentSeqNo' = f.currentSeqNo
                     /\ listening' = TRUE
                     /\ UNCHANGED <<blockTransmit, rssi, rxQueue, queueDepth,
                                    rxBuf, queueRet, lastQueued, PACKETPTR,
                                    nextAddr>>
       ELSE LET r == setRSSI(0)
                q == queueRxBuf(r, allocOk)
            IN  /\ timerRunning' = FALSE
                /\ rssi' = r
                /\ rxQueue' = q.rxQueue
                /\ queueDepth' = q.queueDepth
                /\ rxBuf' = q.rxBuf
                /\ nextAddr' = IF q.queued THEN Allocated ELSE nextAddr
                /\ PACKETPTR' = PointerTo(q.rxBuf)
                /\ queueRet' = q.ret
                /\ lastQueued' = IF q.queued THEN rxBuf.seqNo ELSE lastQueued
                /\ blockTransmit' = FALSE
                /\ listening' = TRUE
                /\ UNCHANGED currentSeqNo
    /\ UNCHANGED <<status, group, dgQueue, ble, PREFIX0, irqEnabled,
                   CRCSTATUS, RSSISAMPLE>>
    /\ UNCHANGED <<bgVars, airVars, band, FREQUENCY, txBuf, powerVars, routed,
                   released, taken>>

\* mesh_TIMER0_IRQHandler, EVENTS_COMPARE[0] set.
mesh_TIMER0_IRQHandler(allocOk) ==
    /\ timerRunning
    /\ LET q == queueRxBuf(rssi, allocOk)
       IN  /\ timerRunning' = FALSE
           /\ listening' = TRUE
           /\ rxQueue' = q.rxQueue
           /\ queueDepth' = q.queueDepth
           /\ rxBuf' = q.rxBuf
           /\ nextAddr' = IF q.queued THEN Allocated ELSE nextAddr
           /\ PACKETPTR' = PointerTo(q.rxBuf)
           /\ queueRet' = q.ret
           /\ lastQueued' = IF q.queued THEN rxBuf.seqNo ELSE lastQueued
           /\ blockTransmit' = FALSE
    /\ UNCHANGED <<status, group, rssi, currentSeqNo, dgQueue, ble, PREFIX0,
                   irqEnabled, EVENTS_END, CRCSTATUS, RSSISAMPLE>>
    /\ UNCHANGED <<bgVars, airVars, band, FREQUENCY, txBuf, powerVars, routed,
                   released, taken>>

\* Either handler runs when its interrupt is pending; both have the same
\* priority, so one runs to completion before the other starts.
Interrupt ==
    \E allocOk \in BOOLEAN, irq \in {"RADIO", "TIMER0"} :
        IF irq = "TIMER0"
        THEN mesh_TIMER0_IRQHandler(allocOk)
        ELSE mesh_RADIO_IRQHandler(allocOk)

----------------------------------------------------------------------------
(* MicroBitMeshRadio: configuration calls of the background task *)

\* enable()
enable(allocOk) ==
    /\ pc = "ready"
    /\ IF Initialised
       THEN /\ ret' = [op |-> "enable", code |-> DEVICE_OK]
            /\ UNCHANGED <<driverVars, hwVars, cfgVars, heapVars, powerVars>>
       ELSE IF ble
       THEN /\ ret' = [op |-> "enable", code |-> DEVICE_NOT_SUPPORTED]
            /\ UNCHANGED <<driverVars, hwVars, cfgVars, heapVars, powerVars>>
       ELSE IF rxBuf = NULL /\ ~allocOk
       THEN /\ ret' = [op |-> "enable", code |-> DEVICE_NO_RESOURCES]
            /\ UNCHANGED <<driverVars, hwVars, cfgVars, heapVars, powerVars>>
       ELSE /\ rxBuf' = IF rxBuf = NULL THEN Allocate ELSE rxBuf
            /\ nextAddr' = IF rxBuf = NULL THEN Allocated ELSE nextAddr
            /\ TXPOWER' = MICROBIT_RADIO_POWER_LEVEL[power + 1]
            /\ FREQUENCY' = band
            /\ PACKETPTR' = "rxBuf"
            /\ PREFIX0' = group
            /\ timerRunning' = FALSE
            /\ EVENTS_END' = FALSE
            /\ irqEnabled' = TRUE
            /\ listening' = TRUE
            /\ status' = status \cup {DEVICE_COMPONENT_STATUS_IDLE_TICK,
                                      MICROBIT_RADIO_STATUS_INITIALISED}
            /\ ret' = [op |-> "enable", code |-> DEVICE_OK]
            /\ UNCHANGED <<group, queueDepth, rssi, rxQueue, blockTransmit,
                           currentSeqNo, ble, CRCSTATUS, RSSISAMPLE, band,
                           txBuf, power>>
    /\ UNCHANGED <<pc, caller, p, pIsHead, queueRet, dgQueue>>
    /\ UNCHANGED <<airVars, histVars>>

\* setGroup(g)
setGroup(g) ==
    /\ pc = "ready"
    /\ IF ble
       THEN /\ ret' = [op |-> "setGroup", code |-> DEVICE_NOT_SUPPORTED]
            /\ UNCHANGED <<group, PREFIX0>>
       ELSE /\ group' = g
            /\ PREFIX0' = g
            /\ ret' = [op |-> "setGroup", code |-> DEVICE_OK]
    /\ UNCHANGED <<status, queueDepth, rssi, rxQueue, rxBuf, blockTransmit,
                   currentSeqNo, dgQueue, ble, irqEnabled, timerRunning, EVENTS_END,
                   CRCSTATUS, RSSISAMPLE, listening, pc, caller, p, pIsHead,
                   queueRet>>
    /\ UNCHANGED <<airVars, histVars, heapVars, powerVars>>
    /\ UNCHANGED cfgVars

----------------------------------------------------------------------------
(* MicroBitMeshRadio::recv(), statement by statement.  `caller' names the *)
(* call site, which receives the returned pointer p.                      *)

\* The bag of the released addresses after delete fr.
Release(bag, fr) ==
    IF nextAddr = 0 \/ fr = NULL
    THEN bag
    ELSE bag (+) SetToBag({fr.addr})

\* What each call site does with the frame recv() returned (fr, NULL for
\* none), as the values of pc, ret and dgQueue after the return.
\*   app      : the application keeps the frame.
\*   idle     : idleCallback() ignores the result and deletes its own p.
\*   event    : event.packetReceived() releases the frame it took.
\*   datagram : datagram.packetReceived() goes on to queue the frame.
Return(fr) ==
    /\ caller' = "none"
    /\ released' = IF caller \in {"idle", "event"}
                   THEN Release(released, fr)
                   ELSE released
    /\ taken' = IF caller = "app" /\ fr # NULL /\ nextAddr # 0
                THEN taken \cup {fr.addr}
                ELSE taken
    /\ CASE caller = "app"      -> /\ pc' = "ready"
                                   /\ ret' = [op |-> "recv", frame |-> fr]
                                   /\ p' = NULL
         [] caller = "idle"     -> /\ pc' = "idle_loop"
                                   /\ ret' = ret
                                   /\ p' = NULL
         [] caller = "event"    -> /\ pc' = "idle_check"
                                   /\ ret' = ret
                                   /\ p' = NULL
         [] caller = "datagram" -> /\ pc' = "dg_queue"
                                   /\ ret' = ret
                                   /\ p' = fr

\* SequencedFrameBuffer *p = rxQueue; if (p) ...
recv_read ==
    /\ pc = "recv_read"
    /\ IF rxQueue = <<>>
       THEN Return(NULL)
       ELSE /\ p' = Head(rxQueue)
            /\ pc' = "recv_disable"
            /\ UNCHANGED <<ret, caller, released, taken>>
    /\ UNCHANGED <<driverVars, hwVars, dgVars, pIsHead, queueRet>>
    /\ UNCHANGED <<airVars, lastQueued, routed, heapVars, powerVars>>
    /\ UNCHANGED cfgVars

\* recv() without its NVIC_DisableIRQ(RADIO_IRQn).
recv_disable_noMask ==
    /\ pc = "recv_disable"
    /\ pc' = "recv_unlink"
    /\ UNCHANGED <<driverVars, dgVars, hwVars, caller, p, pIsHead, ret,
                   queueRet>>
    /\ UNCHANGED <<airVars, histVars, heapVars, powerVars>>
    /\ UNCHANGED cfgVars

\* NVIC_DisableIRQ(RADIO_IRQn);
recv_disable ==
    /\ pc = "recv_disable"
    /\ irqEnabled' = FALSE
    /\ pc' = "recv_unlink"
    /\ UNCHANGED <<driverVars, dgVars, ble, PREFIX0, timerRunning, EVENTS_END,
                   CRCSTATUS, RSSISAMPLE, listening, caller, p, pIsHead, ret,
                   queueRet>>
    /\ UNCHANGED <<airVars, histVars, heapVars, powerVars>>
    /\ UNCHANGED cfgVars

\* recv() taking the newest frame out of the list instead of the oldest.
recv_unlink_newest ==
    /\ pc = "recv_unlink"
    /\ rxQueue' = SubSeq(rxQueue, 1, Len(rxQueue) - 1)
    /\ pIsHead' = FALSE
    /\ pc' = "recv_dec"
    /\ UNCHANGED <<status, group, queueDepth, rssi, rxBuf, blockTransmit,
                   currentSeqNo, band, hwVars, dgVars, caller, p, ret, queueRet>>
    /\ UNCHANGED <<airVars, histVars, heapVars, powerVars>>
    /\ UNCHANGED <<FREQUENCY, PACKETPTR, txBuf>>

\* rxQueue = rxQueue->next;
recv_unlink ==
    /\ pc = "recv_unlink"
    /\ rxQueue' = Tail(rxQueue)
    /\ pIsHead' = FALSE
    /\ pc' = "recv_dec"
    /\ UNCHANGED <<status, group, queueDepth, rssi, rxBuf, blockTransmit,
                   currentSeqNo, hwVars, dgVars, caller, p, ret, queueRet>>
    /\ UNCHANGED <<airVars, histVars, heapVars, powerVars>>
    /\ UNCHANGED cfgVars

\* queueDepth--;
recv_dec ==
    /\ pc = "recv_dec"
    /\ queueDepth' = U8(queueDepth - 1)
    /\ pc' = "recv_enable"
    /\ UNCHANGED <<status, group, rssi, rxQueue, rxBuf, blockTransmit,
                   currentSeqNo, hwVars, dgVars, caller, p, pIsHead, ret,
                   queueRet>>
    /\ UNCHANGED <<airVars, histVars, heapVars, powerVars>>
    /\ UNCHANGED cfgVars

\* NVIC_EnableIRQ(RADIO_IRQn); return p;
recv_enable ==
    /\ pc = "recv_enable"
    /\ irqEnabled' = TRUE
    /\ Return(p)
    /\ UNCHANGED <<driverVars, dgVars, ble, PREFIX0, timerRunning, EVENTS_END,
                   CRCSTATUS, RSSISAMPLE, listening, pIsHead, queueRet>>
    /\ UNCHANGED <<airVars, lastQueued, routed, heapVars, powerVars>>
    /\ UNCHANGED cfgVars

\* The application calls recv().
recv ==
    /\ pc = "ready"
    /\ caller' = "app"
    /\ pc' = "recv_read"
    /\ UNCHANGED <<driverVars, hwVars, dgVars, p, pIsHead, ret, queueRet>>
    /\ UNCHANGED <<airVars, histVars, heapVars, powerVars>>
    /\ UNCHANGED cfgVars

----------------------------------------------------------------------------
(* MicroBitMeshRadio::idleCallback() *)

\* The scheduler calls idleCallback() of a component that asked for idle ticks.
idleCallback ==
    /\ pc = "ready"
    /\ DEVICE_COMPONENT_STATUS_IDLE_TICK \in status
    /\ pc' = "idle_loop"
    /\ UNCHANGED <<driverVars, hwVars, dgVars, caller, p, pIsHead, ret,
                   queueRet>>
    /\ UNCHANGED <<airVars, histVars, heapVars, powerVars>>
    /\ UNCHANGED cfgVars

\* The record of the dispatches with one more: buffer fr went to handler h.
Route(log, fr, h) ==
    IF nextAddr = 0
    THEN log
    ELSE Append(log, [addr |-> fr.addr, protocol |-> fr.protocol, to |-> h])

\* idleCallback() handing every frame to the datagram handler.
idle_loop_allDatagram ==
    /\ pc = "idle_loop"
    /\ IF rxQueue = <<>>
       THEN /\ pc' = "ready"
            /\ UNCHANGED <<caller, pIsHead, routed>>
       ELSE /\ pIsHead' = TRUE
            /\ caller' = "datagram"
            /\ pc' = "recv_read"
            /\ routed' = Route(routed, Head(rxQueue), "datagram")
    /\ UNCHANGED <<driverVars, hwVars, dgVars, p, ret, queueRet>>
    /\ UNCHANGED <<airVars, lastQueued, released, taken, heapVars, powerVars>>
    /\ UNCHANGED cfgVars

\* while (rxQueue) { p = rxQueue; switch (p->protocol) ...
\* The datagram and the event handler start by calling radio.recv().
idle_loop ==
    /\ pc = "idle_loop"
    /\ IF rxQueue = <<>>
       THEN /\ pc' = "ready"
            /\ UNCHANGED <<caller, pIsHead, routed>>
       ELSE /\ pIsHead' = TRUE
            /\ CASE Head(rxQueue).protocol = MICROBIT_RADIO_PROTOCOL_DATAGRAM ->
                      /\ caller' = "datagram"
                      /\ pc' = "recv_read"
                      /\ routed' = Route(routed, Head(rxQueue), "datagram")
                 [] Head(rxQueue).protocol = MICROBIT_RADIO_PROTOCOL_EVENTBUS ->
                      /\ caller' = "event"
                      /\ pc' = "recv_read"
                      /\ routed' = Route(routed, Head(rxQueue), "event")
                 [] OTHER ->
                      /\ caller' = caller
                      /\ pc' = "idle_check"
                      /\ routed' = Route(routed, Head(rxQueue), "notify")
    /\ UNCHANGED <<driverVars, hwVars, dgVars, p, ret, queueRet>>
    /\ UNCHANGED <<airVars, lastQueued, released, taken, heapVars, powerVars>>
    /\ UNCHANGED cfgVars

\* idleCallback() without its forced recv(): a frame no handler took
\* stays at the head.
idle_check_noRelease ==
    /\ pc = "idle_check"
    /\ caller' = caller
    /\ pc' = "idle_loop"
    /\ UNCHANGED <<driverVars, hwVars, dgVars, p, pIsHead, ret, queueRet>>
    /\ UNCHANGED <<airVars, histVars, heapVars, powerVars>>
    /\ UNCHANGED cfgVars

\* if (p == rxQueue) { recv(); delete p; }
idle_check ==
    /\ pc = "idle_check"
    /\ IF pIsHead
       THEN /\ caller' = "idle"
            /\ pc' = "recv_read"
       ELSE /\ caller' = caller
            /\ pc' = "idle_loop"
    /\ UNCHANGED <<driverVars, hwVars, dgVars, p, pIsHead, ret, queueRet>>
    /\ UNCHANGED <<airVars, histVars, heapVars, powerVars>>
    /\ UNCHANGED cfgVars

----------------------------------------------------------------------------
(* MicroBitMeshRadioDatagram *)

\* packetReceived(), after its call of radio.recv() returned packet: the
\* datagram queue after the call.
packetReceived(packet) ==
    IF dgQueue = <<>>
    THEN <<packet>>
    ELSE LET depth == Len(dgQueue) - 1     \* one count per step of the walk
         IN  IF depth >= MICROBIT_MESH_RADIO_MAXIMUM_RX_BUFFERS
             THEN dgQueue
             ELSE Append(dgQueue, packet)

dg_queue ==
    /\ pc = "dg_queue"
    /\ dgQueue' = packetReceived(p)
    /\ released' = IF packetReceived(p) = dgQueue      \* delete packet
                   THEN Release(released, p)
                   ELSE released
    /\ p' = NULL
    /\ pc' = "idle_check"
    /\ UNCHANGED <<driverVars, hwVars, caller, pIsHead, ret, queueRet>>
    /\ UNCHANGED <<airVars, lastQueued, routed, taken, heapVars, powerVars>>
    /\ UNCHANGED cfgVars

\* recv(buf, len): the value returned and the bytes stored at buf.
\* A negative l reaches memcpy as a size_t of nearly 4 GB: the copy runs off
\* the end of memory and the processor faults (the call never returns), or
\* the call returns l with no byte accounted for.
datagram_recv(bufOk, len) ==
    /\ pc = "ready"
    /\ IF ~bufOk \/ dgQueue = <<>> \/ len < 0
       THEN /\ ret' = [op |-> "datagram.recv",
                       code |-> DEVICE_INVALID_PARAMETER, bytes |-> <<>>,
                       fault |-> FALSE]
            /\ UNCHANGED <<dgQueue, pc, released>>
       ELSE LET fr == Head(dgQueue)
                l  == Min(len, fr.length - (MICROBIT_MESH_RADIO_HEADER_SIZE - 1))
            IN  \E fault \in (IF l < 0 THEN BOOLEAN ELSE {FALSE}) :
                  /\ dgQueue' = Tail(dgQueue)
                  /\ released' = Release(released, fr)     \* delete p
                  /\ ret' = [op |-> "datagram.recv", code |-> l,
                             bytes |-> SubSeq(fr.payload, 1, l),
                             fault |-> fault]
                  /\ pc' = IF fault THEN "fault" ELSE pc
    /\ UNCHANGED <<driverVars, hwVars, caller, p, pIsHead, queueRet>>
    /\ UNCHANGED <<airVars, lastQueued, routed, taken, heapVars, powerVars>>
    /\ UNCHANGED cfgVars

\* send(buffer, len) with a buffer that is not NULL, up to its call of
\* radio.send(&buf): the error it returns, or the frame it hands over.
\* buf is a local that is not initialised: only the fields the function
\* assigns are given here, and payload holds the len bytes copied.
datagram_send(buffer, len) ==
    IF len < 0
       \/ len > MICROBIT_RADIO_MAX_PACKET_SIZE + MICROBIT_MESH_RADIO_HEADER_SIZE - 1
    THEN [code |-> DEVICE_INVALID_PARAMETER]
    ELSE [code |-> DEVICE_OK,
          buf  |-> [length   |-> U8(len + MICROBIT_MESH_RADIO_HEADER_SIZE - 1),
                    version  |-> 1,
                    group    |-> 0,
                    protocol |-> MICROBIT_MESH_RADIO_PROTOCOL_DATAGRAM,
                    payload  |-> SubSeq(buffer, 1, len)]]

----------------------------------------------------------------------------
(* MicroBitMeshRadio::send(), as far as the peer's transmissions need it:  *)
(* the validation and the sequence number stamped into the frame.          *)

\* The tests send(buffer) makes before it touches anything, on a device
\* whose ble_running() is bleRunning.
send_check(bleRunning, buffer) ==
    IF bleRunning
    THEN DEVICE_NOT_SUPPORTED
    ELSE IF buffer = NULL
    THEN DEVICE_INVALID_PARAMETER
    ELSE IF buffer.length > MICROBIT_RADIO_MAX_PACKET_SIZE
                            + MICROBIT_RADIO_HEADER_SIZE - 1
    THEN DEVICE_INVALID_PARAMETER
    ELSE DEVICE_OK

\* this->currentSeqNo++; buffer->seqNo = this->currentSeqNo;
send_stamp(buffer, seqCounter) ==
    [buffer @@ [seqNo |-> 0] EXCEPT !.seqNo = U8(seqCounter + 1)]

----------------------------------------------------------------------------
(* MicroBitMeshRadio::send(), statement by statement.  txBuf is the frame  *)
(* the caller passed, as it is in the caller's memory; ret.frame is that   *)
(* frame when the call has returned.                                       *)

\* send() advancing the counter and stamping the frame before its tests.
send_stampFirst(buffer) ==
    /\ pc = "ready"
    /\ LET c == send_check(ble, buffer)
           b == IF buffer = NULL THEN NULL
                ELSE send_stamp(buffer, currentSeqNo)
       IN  /\ currentSeqNo' = currentSeqNo + 1
           /\ IF c # DEVICE_OK
              THEN /\ ret' = [op |-> "send", code |-> c, frame |-> b]
                   /\ UNCHANGED <<pc, txBuf>>
              ELSE /\ txBuf' = b
                   /\ pc' = "send_wait"
                   /\ UNCHANGED ret
    /\ UNCHANGED <<status, group, queueDepth, rssi, rxQueue, rxBuf,
                   blockTransmit, hwVars, dgVars, caller, p, pIsHead, queueRet>>
    /\ UNCHANGED <<airVars, histVars, heapVars, powerVars>>
    /\ UNCHANGED <<band, FREQUENCY, PACKETPTR>>

\* send(buffer): the three tests, each returning before anything is touched.
send(buffer) ==
    /\ pc = "ready"
    /\ LET c == send_check(ble, buffer)
       IN  IF c # DEVICE_OK
           THEN /\ ret' = [op |-> "send", code |-> c, frame |-> buffer]
                /\ UNCHANGED <<pc, txBuf>>
           ELSE /\ txBuf' = buffer
                /\ pc' = "send_wait"
                /\ UNCHANGED ret
    /\ UNCHANGED <<driverVars, hwVars, dgVars, caller, p, pIsHead, queueRet>>
    /\ UNCHANGED <<airVars, histVars, heapVars, powerVars>>
    /\ UNCHANGED <<band, FREQUENCY, PACKETPTR>>

\* while(this->blockTransmit);
send_wait ==
    /\ pc = "send_wait"
    /\ ~blockTransmit
    /\ pc' = "send_disable"
    /\ UNCHANGED <<driverVars, hwVars, dgVars, caller, p, pIsHead, ret,
                   queueRet>>
    /\ UNCHANGED <<airVars, histVars, heapVars, powerVars>>
    /\ UNCHANGED cfgVars

\* send() without its NVIC_DisableIRQ(RADIO_IRQn).
send_disable_noMask ==
    /\ pc = "send_disable"
    /\ pc' = "send_seq"
    /\ UNCHANGED <<driverVars, hwVars, dgVars, caller, p, pIsHead, ret,
                   queueRet>>
    /\ UNCHANGED <<airVars, histVars, heapVars, powerVars>>
    /\ UNCHANGED cfgVars

\* NVIC_DisableIRQ(RADIO_IRQn);
send_disable ==
    /\ pc = "send_disable"
    /\ irqEnabled' = FALSE
    /\ pc' = "send_seq"
    /\ UNCHANGED <<driverVars, dgVars, ble, PREFIX0, timerRunning, EVENTS_END,
                   CRCSTATUS, RSSISAMPLE, listening, caller, p, pIsHead, ret,
                   queueRet>>
    /\ UNCHANGED <<airVars, histVars, heapVars, powerVars>>
    /\ UNCHANGED cfgVars

\* this->currentSeqNo++; buffer->seqNo = this->currentSeqNo;
send_seq ==
    /\ pc = "send_seq"
    /\ currentSeqNo' = currentSeqNo + 1
    /\ txBuf' = send_stamp(txBuf, currentSeqNo)
    /\ pc' = "send_tx"
    /\ UNCHANGED <<status, group, queueDepth, rssi, rxQueue, rxBuf,
                   blockTransmit, hwVars, dgVars, caller, p, pIsHead, ret,
                   queueRet>>
    /\ UNCHANGED <<airVars, histVars, heapVars, powerVars>>
    /\ UNCHANGED <<band, FREQUENCY, PACKETPTR>>

\* TASKS_DISABLE; PACKETPTR = buffer; TASKS_TXEN; TASKS_START;
\* EVENTS_END = 0; while (EVENTS_END == 0);
\* The receiver is off from the first statement on, and the loop ends when
\* the peripheral has raised END for the frame it transmitted.
send_tx ==
    /\ pc = "send_tx"
    /\ listening' = FALSE
    /\ PACKETPTR' = "buffer"
    /\ EVENTS_END' = TRUE
    /\ pc' = "send_rx"
    /\ UNCHANGED <<driverVars, dgVars, ble, PREFIX0, irqEnabled, timerRunning,
                   CRCSTATUS, RSSISAMPLE, caller, p, pIsHead, ret, queueRet>>
    /\ UNCHANGED <<airVars, histVars, heapVars, powerVars>>
    /\ UNCHANGED <<band, FREQUENCY, txBuf>>

\* PACKETPTR = rxBuf; TASKS_DISABLE; TASKS_RXEN; EVENTS_END = 0;
\* TASKS_START;
send_rx ==
    /\ pc = "send_rx"
    /\ PACKETPTR' = PointerTo(rxBuf)
    /\ EVENTS_END' = FALSE
    /\ listening' = TRUE
    /\ pc' = "send_enable"
    /\ UNCHANGED <<driverVars, dgVars, ble, PREFIX0, irqEnabled, timerRunning,
                   CRCSTATUS, RSSISAMPLE, caller, p, pIsHead, ret, queueRet>>
    /\ UNCHANGED <<airVars, histVars, heapVars, powerVars>>
    /\ UNCHANGED <<band, FREQUENCY, txBuf>>

\* NVIC_ClearPendingIRQ(RADIO_IRQn); NVIC_EnableIRQ(RADIO_IRQn);
\* return DEVICE_OK;
send_enable ==
    /\ pc = "send_enable"
    /\ irqEnabled' = TRUE
    /\ ret' = [op |-> "send", code |-> DEVICE_OK, frame |-> txBuf]
    /\ txBuf' = NULL
    /\ pc' = "ready"
    /\ UNCHANGED <<driverVars, dgVars, ble, PREFIX0, timerRunning, EVENTS_END,
                   CRCSTATUS, RSSISAMPLE, listening, caller, p, pIsHead,
                   queueRet>>
    /\ UNCHANGED <<airVars, histVars, heapVars, powerVars>>
    /\ UNCHANGED <<band, FREQUENCY, PACKETPTR>>

----------------------------------------------------------------------------
(* MicroBitMeshRadio: disable(), setFrequencyBand() and setSleep() *)

\* disable() masking the interrupt before it looks at the status.
disable_maskFirst ==
    /\ pc = "ready"
    /\ IF ble
       THEN /\ ret' = [op |-> "disable", code |-> DEVICE_NOT_SUPPORTED]
            /\ UNCHANGED <<status, irqEnabled, listening>>
       ELSE /\ irqEnabled' = FALSE
            /\ listening' = IF Initialised THEN FALSE ELSE listening
            /\ status' = status \ {DEVICE_COMPONENT_STATUS_IDLE_TICK,
                                    MICROBIT_RADIO_STATUS_INITIALISED}
            /\ ret' = [op |-> "disable", code |-> DEVICE_OK]
    /\ UNCHANGED <<group, queueDepth, rssi, rxQueue, rxBuf, blockTransmit,
                   currentSeqNo, dgVars, ble, PREFIX0, timerRunning, EVENTS_END,
                   CRCSTATUS, RSSISAMPLE, pc, caller, p, pIsHead, queueRet>>
    /\ UNCHANGED <<airVars, histVars, heapVars, powerVars>>
    /\ UNCHANGED cfgVars

\* disable() returning the configuration to the constructor's values.
disable_resetConfig ==
    /\ pc = "ready"
    /\ IF ble
       THEN /\ ret' = [op |-> "disable", code |-> DEVICE_NOT_SUPPORTED]
            /\ UNCHANGED <<status, irqEnabled, listening, band, power, group>>
       ELSE IF ~Initialised
       THEN /\ ret' = [op |-> "disable", code |-> DEVICE_OK]
            /\ UNCHANGED <<status, irqEnabled, listening, band, power, group>>
       ELSE /\ irqEnabled' = FALSE
            /\ listening' = FALSE
            /\ status' = status \ {DEVICE_COMPONENT_STATUS_IDLE_TICK,
                                    MICROBIT_RADIO_STATUS_INITIALISED}
            /\ band' = MICROBIT_MESH_RADIO_DEFAULT_FREQUENCY
            /\ power' = MICROBIT_MESH_RADIO_DEFAULT_TX_POWER
            /\ group' = MICROBIT_MESH_RADIO_DEFAULT_GROUP
            /\ ret' = [op |-> "disable", code |-> DEVICE_OK]
    /\ UNCHANGED <<queueDepth, rssi, rxQueue, rxBuf, blockTransmit,
                   currentSeqNo, dgVars, ble, PREFIX0, timerRunning, EVENTS_END,
                   CRCSTATUS, RSSISAMPLE, pc, caller, p, pIsHead, queueRet>>
    /\ UNCHANGED <<airVars, histVars, heapVars>>
    /\ UNCHANGED <<FREQUENCY, TXPOWER, PACKETPTR, txBuf>>

\* disable()
disable ==
    /\ pc = "ready"
    /\ IF ble
       THEN /\ ret' = [op |-> "disable", code |-> DEVICE_NOT_SUPPORTED]
            /\ UNCHANGED <<status, irqEnabled, listening>>
       ELSE IF ~Initialised
       THEN /\ ret' = [op |-> "disable", code |-> DEVICE_OK]
            /\ UNCHANGED <<status, irqEnabled, listening>>
       ELSE /\ irqEnabled' = FALSE
            /\ listening' = FALSE
            /\ status' = status \ {DEVICE_COMPONENT_STATUS_IDLE_TICK,
                                    MICROBIT_RADIO_STATUS_INITIALISED}
            /\ ret' = [op |-> "disable", code |-> DEVICE_OK]
    /\ UNCHANGED <<group, queueDepth, rssi, rxQueue, rxBuf, blockTransmit,
                   currentSeqNo, dgVars, ble, PREFIX0, timerRunning, EVENTS_END,
                   CRCSTATUS, RSSISAMPLE, pc, caller, p, pIsHead, queueRet>>
    /\ UNCHANGED <<airVars, histVars, heapVars, powerVars>>
    /\ UNCHANGED cfgVars

\* setFrequencyBand() storing the band before it tests the range.
setFrequencyBand_storeFirst(n) ==
    /\ pc = "ready"
    /\ IF ble
       THEN /\ ret' = [op |-> "setFrequencyBand", code |-> DEVICE_NOT_SUPPORTED]
            /\ UNCHANGED <<band, FREQUENCY, irqEnabled, EVENTS_END, listening>>
       ELSE /\ band' = U8(n)
            /\ ret' = [op |-> "setFrequencyBand",
                       code |-> IF n < 0 \/ n > 100
                                THEN DEVICE_INVALID_PARAMETER ELSE DEVICE_OK]
            /\ UNCHANGED <<FREQUENCY, irqEnabled, EVENTS_END, listening>>
    /\ UNCHANGED <<driverVars, dgVars, ble, PREFIX0, timerRunning, CRCSTATUS,
                   RSSISAMPLE, pc, caller, p, pIsHead, queueRet>>
    /\ UNCHANGED <<airVars, histVars, heapVars, powerVars>>
    /\ UNCHANGED <<PACKETPTR, txBuf>>

\* setFrequencyBand(n).  On an initialised radio tuned to another channel
\* the receiver is restarted with the interrupt masked: the END event of a
\* frame received before is cleared and the interrupt ends up enabled.
setFrequencyBand(n) ==
    /\ pc = "ready"
    /\ IF ble
       THEN /\ ret' = [op |-> "setFrequencyBand", code |-> DEVICE_NOT_SUPPORTED]
            /\ UNCHANGED <<band, FREQUENCY, irqEnabled, EVENTS_END, listening>>
       ELSE IF n < 0 \/ n > 100
       THEN /\ ret' = [op |-> "setFrequencyBand",
                       code |-> DEVICE_INVALID_PARAMETER]
            /\ UNCHANGED <<band, FREQUENCY, irqEnabled, EVENTS_END, listening>>
       ELSE /\ band' = n
            /\ ret' = [op |-> "setFrequencyBand", code |-> DEVICE_OK]
            /\ IF FREQUENCY # n /\ Initialised
               THEN /\ FREQUENCY' = n
                    /\ EVENTS_END' = FALSE
                    /\ listening' = TRUE
                    /\ irqEnabled' = TRUE
               ELSE UNCHANGED <<FREQUENCY, irqEnabled, EVENTS_END, listening>>
    /\ UNCHANGED <<driverVars, dgVars, ble, PREFIX0, timerRunning, CRCSTATUS,
                   RSSISAMPLE, pc, caller, p, pIsHead, queueRet>>
    /\ UNCHANGED <<airVars, histVars, heapVars, powerVars>>
    /\ UNCHANGED <<PACKETPTR, txBuf>>

\* setTransmitPower(n)
setTransmitPower(n) ==
    /\ pc = "ready"
    /\ IF n < 0 \/ n >= MICROBIT_RADIO_POWER_LEVELS
       THEN /\ ret' = [op |-> "setTransmitPower",
                       code |-> DEVICE_INVALID_PARAMETER]
            /\ UNCHANGED <<power, TXPOWER>>
       ELSE /\ power' = n
            /\ TXPOWER' = MICROBIT_RADIO_POWER_LEVEL[n + 1]
            /\ ret' = [op |-> "setTransmitPower", code |-> DEVICE_OK]
    /\ UNCHANGED <<driverVars, dgVars, hwVars, pc, caller, p, pIsHead,
                   queueRet>>
    /\ UNCHANGED <<airVars, histVars, heapVars, cfgVars>>

\* setSleep() masking an enabled interrupt of a disabled radio without
\* recording it in the status.
setSleep_state_noRecord(st, irq, doSleep, canEnable) ==
    IF doSleep
    THEN IF MICROBIT_RADIO_STATUS_INITIALISED \in st
         THEN [status |-> (st \ {DEVICE_COMPONENT_STATUS_IDLE_TICK,
                                 MICROBIT_RADIO_STATUS_INITIALISED})
                          \cup {MICROBIT_RADIO_STATUS_DEEPSLEEP_INIT},
               irqEnabled |-> FALSE, call |-> "disable"]
         ELSE [status |-> st, irqEnabled |-> FALSE, call |-> "none"]
    ELSE IF MICROBIT_RADIO_STATUS_DEEPSLEEP_INIT \in st
         THEN LET s1 == st \ {MICROBIT_RADIO_STATUS_DEEPSLEEP_INIT}
              IN  IF MICROBIT_RADIO_STATUS_INITIALISED \in s1 \/ ~canEnable
                  THEN [status |-> s1, irqEnabled |-> irq, call |-> "none"]
                  ELSE [status |-> s1 \cup {DEVICE_COMPONENT_STATUS_IDLE_TICK,
                                           MICROBIT_RADIO_STATUS_INITIALISED},
                        irqEnabled |-> TRUE, call |-> "enable"]
         ELSE IF MICROBIT_RADIO_STATUS_DEEPSLEEP_IRQ \in st
         THEN [status |-> st \ {MICROBIT_RADIO_STATUS_DEEPSLEEP_IRQ},
               irqEnabled |-> TRUE, call |-> "none"]
         ELSE [status |-> st, irqEnabled |-> irq, call |-> "none"]

\* setSleep(doSleep) on a device without BLE whose status is st and whose
\* radio interrupt is enabled iff irq: the status and the interrupt enable
\* state after the call, and the call it made on the way (disable(),
\* an enable() that brought the radio up, or none).  canEnable says
\* that enable() would find or get its receive buffer.
setSleep_state(st, irq, doSleep, canEnable) ==
    IF doSleep
    THEN IF MICROBIT_RADIO_STATUS_INITIALISED \in st
         THEN [status |-> (st \ {DEVICE_COMPONENT_STATUS_IDLE_TICK,
                                 MICROBIT_RADIO_STATUS_INITIALISED})
                          \cup {MICROBIT_RADIO_STATUS_DEEPSLEEP_INIT},
               irqEnabled |-> FALSE, call |-> "disable"]
         ELSE IF irq
         THEN [status |-> st \cup {MICROBIT_RADIO_STATUS_DEEPSLEEP_IRQ},
               irqEnabled |-> FALSE, call |-> "none"]
         ELSE [status |-> st, irqEnabled |-> irq, call |-> "none"]
    ELSE IF MICROBIT_RADIO_STATUS_DEEPSLEEP_INIT \in st
         THEN LET s1 == st \ {MICROBIT_RADIO_STATUS_DEEPSLEEP_INIT}
              IN  IF MICROBIT_RADIO_STATUS_INITIALISED \in s1 \/ ~canEnable
                  THEN [status |-> s1, irqEnabled |-> irq, call |-> "none"]
                  ELSE [status |-> s1 \cup {DEVICE_COMPONENT_STATUS_IDLE_TICK,
                                           MICROBIT_RADIO_STATUS_INITIALISED},
                        irqEnabled |-> TRUE, call |-> "enable"]
         ELSE IF MICROBIT_RADIO_STATUS_DEEPSLEEP_IRQ \in st
         THEN [status |-> st \ {MICROBIT_RADIO_STATUS_DEEPSLEEP_IRQ},
               irqEnabled |-> TRUE, call |-> "none"]
         ELSE [status |-> st, irqEnabled |-> irq, call |-> "none"]

\* setSleep(doSleep)
setSleep(doSleep, allocOk) ==
    /\ pc = "ready"
    /\ IF ble
       THEN /\ ret' = [op |-> "setSleep", code |-> DEVICE_NOT_SUPPORTED]
            /\ UNCHANGED <<status, irqEnabled, listening, rxBuf, FREQUENCY,
                           PACKETPTR, PREFIX0, timerRunning, EVENTS_END,
                           nextAddr, TXPOWER>>
       ELSE LET r == setSleep_state(status, irqEnabled, doSleep,
                                    rxBuf # NULL \/ allocOk)
            IN  /\ status' = r.status
                /\ irqEnabled' = r.irqEnabled
                /\ ret' = [op |-> "setSleep", code |-> DEVICE_OK]
                /\ nextAddr' = IF r.call = "enable" /\ rxBuf = NULL
                               THEN Allocated ELSE nextAddr
                /\ CASE r.call = "disable" ->
                          /\ listening' = FALSE
                          /\ UNCHANGED <<rxBuf, FREQUENCY, PACKETPTR, PREFIX0,
                                         timerRunning, EVENTS_END, TXPOWER>>
                     [] r.call = "enable" ->
                          /\ rxBuf' = IF rxBuf = NULL
                                      THEN Allocate ELSE rxBuf
                          /\ TXPOWER' = MICROBIT_RADIO_POWER_LEVEL[power + 1]
                          /\ FREQUENCY' = band
                          /\ PACKETPTR' = "rxBuf"
                          /\ PREFIX0' = group
                          /\ timerRunning' = FALSE
                          /\ EVENTS_END' = FALSE
                          /\ listening' = TRUE
                     [] OTHER ->
                          UNCHANGED <<listening, rxBuf, FREQUENCY, PACKETPTR,
                                      PREFIX0, timerRunning, EVENTS_END,
                                      TXPOWER>>
    /\ UNCHANGED <<group, queueDepth, rssi, rxQueue, blockTransmit,
                   currentSeqNo, dgVars, ble, CRCSTATUS, RSSISAMPLE, pc, caller,
                   p, pIsHead, queueRet>>
    /\ UNCHANGED <<airVars, histVars>>
    /\ UNCHANGED <<band, txBuf, power>>

\* The BLE stack is started or stopped: what ble_running() returns changes.
BleChange ==
    /\ ble' = ~ble
    /\ UNCHANGED <<driverVars, dgVars, PREFIX0, irqEnabled, timerRunning,
                   EVENTS_END, CRCSTATUS, RSSISAMPLE, listening, bgVars,
                   queueRet>>
    /\ UNCHANGED <<airVars, histVars, heapVars, powerVars>>
    /\ UNCHANGED cfgVars

----------------------------------------------------------------------------
(* The air *)

Groups == 0..MaxGroup

\* The n-byte payload the peer's application sends: 1, 2, ..., n.
Payload(n) == [i \in 1..n |-> i]

\* The peer, a device of group g running the same code, calls
\* datagram.send(buffer, n): what it transmits is on the air, addressed with
\* the peer's own group as prefix.  payload remembers the n bytes it was
\* asked to send.
PeerSend(buffer, n, g) ==
    /\ peerSeqNo < MaxSeqNo
    /\ LET d == datagram_send(buffer, n)
       IN  /\ d.code = DEVICE_OK
           /\ send_check(FALSE, d.buf) = DEVICE_OK
           /\ air' = [prefix  |-> g,
                      bytes   |-> Wire(send_stamp(d.buf, peerSeqNo)),
                      payload |-> SubSeq(buffer, 1, n)]
    /\ peerSeqNo' = peerSeqNo + 1
    /\ UNCHANGED <<driverVars, hwVars, dgVars, bgVars, queueRet, histVars,
                   heapVars, powerVars>>
    /\ UNCHANGED cfgVars

\* The receiver's radio hears a frame of another sender.
ReceiveOther(w, crc, sample) ==
    /\ Receive(w, crc, sample)
    /\ UNCHANGED airVars

\* The receiver's radio hears the peer's transmission, once.
ReceivePeer(crc, sample) ==
    /\ air # NULL
    /\ Receive(air, crc, sample)
    /\ air' = NULL
    /\ UNCHANGED peerSeqNo

\* Frames of other senders, without payload: the bytes of a frame of group
\* g, protocol proto and sequence number seq, sent to the address of group g.
OtherFrame(g, proto, seq) == [prefix |-> g, bytes |-> <<4, 1, g, proto, seq>>]

\* A datagram and a frame of a protocol the driver does not know.
Protocols == {MICROBIT_MESH_RADIO_PROTOCOL_DATAGRAM, 3}
ByProtocol == { OtherFrame(MICROBIT_MESH_RADIO_DEFAULT_GROUP, proto, 1) :
                  proto \in Protocols }

\* Frames of an unknown protocol with every sequence number.
BySeqNo == { OtherFrame(MICROBIT_MESH_RADIO_DEFAULT_GROUP, 3, seq) :
               seq \in 0..MaxSeqNo }

----------------------------------------------------------------------------
(* The driver with its queue, the application's recv() and the idle drain. *)

Next ==
    \/ \E allocOk \in BOOLEAN : enable(allocOk)
    \/ \E w \in ByProtocol, crc \in {0, 1}, sample \in RssiSamples :
           ReceiveOther(w, crc, sample)
    \/ Interrupt
    \/ recv
    \/ recv_read
    \/ recv_disable
    \/ recv_unlink
    \/ recv_dec
    \/ recv_enable
    \/ idleCallback
    \/ idle_loop
    \/ idle_check
    \/ dg_queue
    \/ \E bufOk \in BOOLEAN, len \in {-1, 0, MaxPayload} :
           datagram_recv(bufOk, len)

Spec == Init /\ [][Next]_vars

(* The Sequence Filter: frames that differ in their sequence number. *)

NextSeq ==
    \/ \E allocOk \in BOOLEAN : enable(allocOk)
    \/ \E w \in BySeqNo, crc \in {0, 1}, sample \in RssiSamples :
           ReceiveOther(w, crc, sample)
    \/ Interrupt
    \/ recv
    \/ recv_read
    \/ recv_disable
    \/ recv_unlink
    \/ recv_dec
    \/ recv_enable

SpecSeq == Init /\ [][NextSeq]_vars

\* A pending interrupt whose NVIC enable bit is set is taken: the handlers
\* have a higher priority than any code of the background task.
SpecSeqFair == SpecSeq /\ WF_vars(Interrupt)

(* A peer's datagrams heard by the receiver, in any pair of groups. *)

NextAir ==
    \/ \E allocOk \in BOOLEAN : enable(allocOk)
    \/ \E g \in Groups : setGroup(g)
    \/ \E g \in Groups : PeerSend(Payload(MaxPayload), MaxPayload, g)
    \/ \E crc \in {0, 1}, sample \in RssiSamples : ReceivePeer(crc, sample)
    \/ Interrupt
    \/ recv_read
    \/ recv_disable
    \/ recv_unlink
    \/ recv_dec
    \/ recv_enable
    \/ idleCallback
    \/ idle_loop
    \/ idle_check
    \/ dg_queue
    \/ datagram_recv(TRUE, MaxPayload)

SpecAir == Init /\ [][NextAir]_vars

(* The datagram service end to end: send on the peer, the bytes on the    *)
(* air, packetReceived and recv on the receiver.                          *)

\* packetReceived() on the receiver for the peer's frame: packet, the
\* buffer radio.recv() returns, is a fresh buffer the radio filled with the
\* bytes on the air.
trip_packetReceived ==
    /\ air # NULL
    /\ dgQueue' = packetReceived(DMAWrite(NewSequencedFrameBuffer, air.bytes))
    /\ UNCHANGED <<driverVars, hwVars, bgVars, queueRet, airVars, histVars,
                   heapVars, powerVars>>
    /\ UNCHANGED cfgVars

\* The peer sends its next datagram once the receiver has taken the last.
NextTrip ==
    \/ /\ dgQueue = <<>>
       /\ \E n \in 0..MaxPayload :
              PeerSend(Payload(MaxPayload), n, MICROBIT_MESH_RADIO_DEFAULT_GROUP)
    \/ trip_packetReceived
    \/ datagram_recv(TRUE, MaxPayload)

SpecTrip == Init /\ [][NextTrip]_vars

----------------------------------------------------------------------------
(* Properties *)

Last(q) == q[Len(q)]

\* A step of mesh_RADIO_IRQHandler that handles an END event whose
\* CRCSTATUS is crc.
RadioEnd(crc) ==
    /\ irqEnabled
    /\ EVENTS_END
    /\ CRCSTATUS = crc
    /\ ~EVENTS_END'

\* A step of mesh_TIMER0_IRQHandler: the guard timer fires.
TimerExpiry == timerRunning /\ ~timerRunning' /\ UNCHANGED EVENTS_END

\* A step that appends a frame to the Receive Queue.
Appended == Len(rxQueue') = Len(rxQueue) + 1

\* The guard timer is never armed: compareSeqNo() compares the sequence
\* number of the received frame with itself, so the radio handler never
\* takes a frame with a good checksum, and mesh_TIMER0_IRQHandler never runs.
GuardTimerNeverArmed == ~timerRunning /\ ~blockTransmit /\ currentSeqNo = 0

\* C1: whenever no dequeue is between unlinking the head and counting it
\* off (recv() does both with the radio interrupt disabled), queueDepth is
\* the number of frames linked in rxQueue, and dataReady() returns that
\* number.
C1_DepthIsLength ==
    pc # "recv_dec" =>
        /\ queueDepth = Len(rxQueue)
        /\ dataReady = Len(rxQueue)

\* Frames were enqueued by the interrupt handler and dequeued both by the
\* application's recv() and by the idle drain, and two are still queued.
C1_Witness ==
    /\ pc = "ready"
    /\ ret.op = "recv"
    /\ ret.frame # NULL
    /\ dgQueue # <<>>
    /\ Len(rxQueue) = 2
    /\ dataReady = 2

\* C2: the Receive Queue never holds more than 4 frames, and queueDepth
\* never exceeds 4.
C2_AtMostFour ==
    /\ queueDepth <= MICROBIT_MESH_RADIO_MAXIMUM_RX_BUFFERS
    /\ Len(rxQueue) <= MICROBIT_MESH_RADIO_MAXIMUM_RX_BUFFERS

\* The queue holds 4 frames and the radio interrupt for a further frame is
\* pending.
C2_Witness ==
    /\ queueDepth = MICROBIT_MESH_RADIO_MAXIMUM_RX_BUFFERS
    /\ Len(rxQueue) = MICROBIT_MESH_RADIO_MAXIMUM_RX_BUFFERS
    /\ EVENTS_END
    /\ irqEnabled

\* C3: an interrupt that calls queueRxBuf() while the queue is at its
\* maximum depth gets DEVICE_NO_RESOURCES, and rxQueue, queueDepth and rxBuf
\* are what they were before the call.
C3_FullQueueUntouched ==
    [][ ((RadioEnd(0) \/ TimerExpiry)
            /\ queueDepth >= MICROBIT_RADIO_MAXIMUM_RX_BUFFERS)
        => /\ queueRet' = DEVICE_NO_RESOURCES
           /\ UNCHANGED <<rxQueue, queueDepth, rxBuf>> ]_vars

\* queueRxBuf() has been called on a full queue and has returned: the last
\* call returned DEVICE_NO_RESOURCES, and no frame has left the queue since.
C3_Witness ==
    /\ Len(rxQueue) = MICROBIT_RADIO_MAXIMUM_RX_BUFFERS
    /\ queueDepth = MICROBIT_RADIO_MAXIMUM_RX_BUFFERS
    /\ queueRet = DEVICE_NO_RESOURCES
    /\ ~EVENTS_END
    /\ listening
    /\ rxBuf.protocol = MICROBIT_RADIO_PROTOCOL_DATAGRAM
    /\ Head(rxQueue).protocol # MICROBIT_RADIO_PROTOCOL_DATAGRAM

\* C4: every frame appended to the Receive Queue has a sequence number
\* strictly greater than that of the frame appended before it.
C4_MonotonicAcceptance ==
    [][ (Appended /\ lastQueued # -1)
        => Last(rxQueue').seqNo > lastQueued ]_vars

\* C5: on an END event with a good checksum the frame is accepted (the guard
\* window opens) if and only if its sequence number is strictly greater than
\* the filter's reference value, and on acceptance the reference value
\* becomes the frame's sequence number.
C5_SequenceFilter ==
    [][ RadioEnd(1)
        => /\ timerRunning' <=> (rxBuf.seqNo > currentSeqNo)
           /\ timerRunning' => (currentSeqNo' = rxBuf.seqNo) ]_vars

\* C6: a frame with a good checksum and a sequence number greater than the
\* last accepted one, received while the queue is below its maximum, is held
\* for the guard timer; and when the guard timer fires with the queue below
\* its maximum, the frame in the active buffer is appended to the Receive
\* Queue and the active buffer becomes the replacement, unless the
\* replacement could not be allocated.
C6_GoodFrameQueued ==
    [][ /\ (/\ RadioEnd(1)
            /\ rxBuf.seqNo > currentSeqNo
            /\ queueDepth < MICROBIT_RADIO_MAXIMUM_RX_BUFFERS)
           => timerRunning'
        /\ (/\ TimerExpiry
            /\ queueDepth < MICROBIT_RADIO_MAXIMUM_RX_BUFFERS)
           => \/ /\ Appended
                 /\ Last(rxQueue').seqNo = rxBuf.seqNo
                 /\ rxBuf' = NewSequencedFrameBuffer
              \/ queueRet' = DEVICE_NO_RESOURCES ]_vars

\* C7: on an END event with a bad checksum the guard timer is cancelled,
\* the recorded RSSI is zero, and rxBuf, rxQueue and queueDepth are
\* unchanged.
C7_BadChecksumDropped ==
    [][ RadioEnd(0)
        => /\ ~timerRunning'
           /\ rssi' = 0
           /\ UNCHANGED <<rxBuf, rxQueue, queueDepth>> ]_vars

\* C8: a datagram recv() on the receiver, with room for the whole payload,
\* that takes the peer's datagram returns the number of bytes the peer was
\* asked to send, and the bytes themselves.
C8_RoundTrip ==
    [][ (dgQueue # <<>> /\ dgQueue' = Tail(dgQueue))
        => /\ ret'.code = Len(air.payload)
           /\ ret'.bytes = air.payload ]_vars

\* C9: the length byte of the frame a datagram send of n bytes puts on the
\* air is 4 + n.
C9_WireLength ==
    air # NULL =>
        air.bytes[1] = MICROBIT_MESH_RADIO_HEADER_SIZE + Len(air.payload)

\* C10: every frame appended to the Receive Queue carries, in its group
\* field, the group the receiver is configured with.
C10_GroupMatches ==
    [][ Appended => Last(rxQueue').group = group ]_vars

----------------------------------------------------------------------------
(* Transmission: the application sends frames while frames of the own     *)
(* group arrive and the handlers run.                                      *)

\* A frame of the given length as an application hands it to send().
TxFrame(len) ==
    [length |-> len, version |-> 1, group |-> MICROBIT_MESH_RADIO_DEFAULT_GROUP,
     protocol |-> MICROBIT_MESH_RADIO_PROTOCOL_DATAGRAM, payload |-> <<>>]

\* The arguments of send(): no frame, the shortest and the longest frame it
\* accepts, and the shortest it refuses.
SendInputs ==
    {NULL,
     TxFrame(MICROBIT_MESH_RADIO_HEADER_SIZE),
     TxFrame(MICROBIT_RADIO_MAX_PACKET_SIZE + MICROBIT_RADIO_HEADER_SIZE - 1),
     TxFrame(MICROBIT_RADIO_MAX_PACKET_SIZE + MICROBIT_RADIO_HEADER_SIZE)}

NextSend ==
    \/ \E allocOk \in BOOLEAN : enable(allocOk)
    \/ \E buffer \in SendInputs : currentSeqNo < MaxSeqNo /\ send(buffer)
    \/ send_wait
    \/ send_disable
    \/ send_seq
    \/ send_tx
    \/ send_rx
    \/ send_enable
    \/ recv
    \/ recv_read
    \/ recv_disable
    \/ recv_unlink
    \/ recv_dec
    \/ recv_enable
    \/ \E crc \in {0, 1} :
          ReceiveOther(OtherFrame(MICROBIT_MESH_RADIO_DEFAULT_GROUP, 3, 1),
                       crc, 42)
    \/ Interrupt

SpecSend == Init /\ [][NextSend]_vars

----------------------------------------------------------------------------
(* The sequence number at the limit of its byte: one device sends frame   *)
(* after frame, and receives one in between.                              *)

NextWrap ==
    \/ \E allocOk \in BOOLEAN : enable(allocOk)
    \/ /\ currentSeqNo < MaxWrapSends
       /\ send(TxFrame(MICROBIT_MESH_RADIO_HEADER_SIZE))
    \/ send_wait
    \/ send_disable
    \/ send_seq
    \/ send_tx
    \/ send_rx
    \/ send_enable
    \/ /\ Len(rxQueue) < MaxCfgFrames
       /\ ReceiveOther(OtherFrame(MICROBIT_MESH_RADIO_DEFAULT_GROUP, 3, 1),
                       0, 42)
    \/ Interrupt

SpecWrap == Init /\ [][NextWrap]_vars

----------------------------------------------------------------------------
(* Datagrams sent: the application of the receiver calls datagram.send()  *)
(* with lengths at and around the limits, while a frame may arrive.       *)

\* datagram.send(buffer, len) called by the application, buffer holding
\* bytes enough: it returns its own error, or what radio.send(&buf) returns.
\* buf.payload has room for MICROBIT_RADIO_MAX_PACKET_SIZE bytes; the bytes
\* memcpy() copies beyond them lie outside the array, in the rest of the
\* local buf, which no statement reads afterwards.
datagram_send_call(len) ==
    /\ pc = "ready"
    /\ LET d == datagram_send(Payload(DatagramBytes), len)
       IN  IF d.code # DEVICE_OK
           THEN /\ ret' = [op |-> "datagram.send", code |-> d.code]
                /\ UNCHANGED <<driverVars, hwVars, dgVars, pc, caller, p,
                               pIsHead, queueRet>>
                /\ UNCHANGED <<airVars, histVars, heapVars, powerVars>>
                /\ UNCHANGED cfgVars
           ELSE send(d.buf)

\* The lengths passed to datagram.send(): negative, none, one byte, the
\* capacity of the payload and one more, the largest length the datagram
\* layer lets pass and one more.
DatagramSendLens ==
    {-1, 0, 1, MICROBIT_RADIO_MAX_PACKET_SIZE,
     MICROBIT_RADIO_MAX_PACKET_SIZE + 1,
     MICROBIT_RADIO_MAX_PACKET_SIZE + MICROBIT_MESH_RADIO_HEADER_SIZE - 1,
     MICROBIT_RADIO_MAX_PACKET_SIZE + MICROBIT_MESH_RADIO_HEADER_SIZE}

NextDatagramSend ==
    \/ \E allocOk \in BOOLEAN : enable(allocOk)
    \/ BleChange
    \/ \E len \in DatagramSendLens :
          currentSeqNo < MaxSeqNo /\ datagram_send_call(len)
    \/ send_wait
    \/ send_disable
    \/ send_seq
    \/ send_tx
    \/ send_rx
    \/ send_enable
    \/ /\ Len(rxQueue) < MaxCfgFrames
       /\ ReceiveOther(OtherFrame(MICROBIT_MESH_RADIO_DEFAULT_GROUP, 3, 1),
                       0, 42)
    \/ Interrupt

SpecDatagramSend == Init /\ [][NextDatagramSend]_vars

----------------------------------------------------------------------------
(* Ownership: the scenario of Spec with the address of every buffer       *)
(* followed, for as long as the heap hands out buffers.                   *)

NextOwn ==
    \/ \E allocOk \in BOOLEAN : enable(allocOk)
    \/ \E w \in ByProtocol :
          nextAddr <= MaxFrames /\ ReceiveOther(w, 0, 42)
    \/ Interrupt
    \/ recv
    \/ recv_read
    \/ recv_disable
    \/ recv_unlink
    \/ recv_dec
    \/ recv_enable
    \/ idleCallback
    \/ idle_loop
    \/ idle_check
    \/ dg_queue
    \/ \E bufOk \in BOOLEAN : datagram_recv(bufOk, MaxPayload)

SpecOwn == InitOwn /\ [][NextOwn]_vars

----------------------------------------------------------------------------
(* Configuration: the application enables, disables, retunes and puts to  *)
(* sleep a radio that sends and receives, while BLE comes and goes.       *)

\* The arguments of setFrequencyBand(): the ends of the range, and values
\* below and above it.
BandInputs == {-1, 0, 100, 101, 150}

NextCfg ==
    \/ \E allocOk \in BOOLEAN : enable(allocOk)
    \/ disable
    \/ \E n \in BandInputs : setFrequencyBand(n)
    \/ \E doSleep \in BOOLEAN, allocOk \in BOOLEAN : setSleep(doSleep, allocOk)
    \/ BleChange
    \/ /\ currentSeqNo < MaxCfgSends
       /\ send(TxFrame(MICROBIT_MESH_RADIO_HEADER_SIZE))
    \/ send_wait
    \/ send_disable
    \/ send_seq
    \/ send_tx
    \/ send_rx
    \/ send_enable
    \/ /\ Len(rxQueue) < MaxCfgFrames
       /\ ReceiveOther(OtherFrame(MICROBIT_MESH_RADIO_DEFAULT_GROUP, 3, 1),
                       0, 42)
    \/ Interrupt

SpecCfg == Init /\ [][NextCfg]_vars

----------------------------------------------------------------------------
(* The drain: frames of the three kinds of protocol arrive and are queued *)
(* while the background task is between calls; idleCallback() then runs   *)
(* with no interrupt arriving.  Buffer addresses are followed.            *)

AllProtocols == {MICROBIT_MESH_RADIO_PROTOCOL_DATAGRAM,
                 MICROBIT_MESH_RADIO_PROTOCOL_EVENTBUS, 3}

\* A step of idleCallback() or of a call it makes.
DrainStep ==
    \/ idle_loop
    \/ idle_check
    \/ recv_read
    \/ recv_disable
    \/ recv_unlink
    \/ recv_dec
    \/ recv_enable
    \/ dg_queue

NextDrain ==
    \/ \E allocOk \in BOOLEAN : enable(allocOk)
    \/ \E proto \in AllProtocols :
          /\ pc = "ready"
          /\ nextAddr <= MaxFrames
          /\ ReceiveOther(OtherFrame(MICROBIT_MESH_RADIO_DEFAULT_GROUP,
                                     proto, 1), 0, 42)
    \/ pc = "ready" /\ Interrupt
    \/ idleCallback
    \/ DrainStep

SpecDrain == InitOwn /\ [][NextDrain]_vars

\* idleCallback() is straight-line code of the background task: once
\* called, the processor executes its next statement.
SpecDrainFair == SpecDrain /\ WF_vars(DrainStep)

----------------------------------------------------------------------------
(* Datagram reception: frames with every length byte arrive, good and     *)
(* damaged, and the application reads the datagram queue.                 *)

\* A datagram frame cut to the n bytes its length byte announces: the
\* version, the group, the protocol and the sequence number, in this order.
ShortFrame(n) ==
    [prefix |-> MICROBIT_MESH_RADIO_DEFAULT_GROUP,
     bytes  |-> <<n>> \o SubSeq(<<1, MICROBIT_MESH_RADIO_DEFAULT_GROUP,
                                  MICROBIT_MESH_RADIO_PROTOCOL_DATAGRAM, 1>>,
                                1, n)]

\* Length bytes below, at and above the three header bytes recv() deducts.
DatagramRecvLengths == {0, 2, 3, 4}

\* The len arguments of recv(buf, len).
DatagramRecvLens == {-1, 0, MaxPayload}

\* The frames waiting in both queues during datagram reception.
MaxRecvFrames == 2

NextDatagramRecv ==
    \/ \E allocOk \in BOOLEAN : enable(allocOk)
    \/ \E n \in DatagramRecvLengths, crc \in {0, 1} :
          /\ pc = "ready"
          /\ Len(rxQueue) + Len(dgQueue) < MaxRecvFrames
          /\ ReceiveOther(ShortFrame(n), crc, 42)
    \/ pc = "ready" /\ Interrupt
    \/ idleCallback
    \/ DrainStep
    \/ \E bufOk \in BOOLEAN, len \in DatagramRecvLens :
          datagram_recv(bufOk, len)

SpecDatagramRecv == Init /\ [][NextDatagramRecv]_vars

----------------------------------------------------------------------------
(* Reconfiguration: the application sets band, power and group of a radio *)
(* it enables and disables, with buffer addresses followed.               *)

\* The arguments of setTransmitPower(): the ends of the range, and values
\* below and above it.
PowerInputs == {-1, 0, 7, 8}

NextPower ==
    \/ \E allocOk \in BOOLEAN : enable(allocOk)
    \/ disable
    \/ \E n \in {0, 100, 101} : setFrequencyBand(n)
    \/ \E n \in PowerInputs : setTransmitPower(n)
    \/ \E g \in 0..MaxGroup : setGroup(g)
    \/ BleChange
    \/ /\ Len(rxQueue) < MaxCfgFrames
       /\ ReceiveOther(OtherFrame(MICROBIT_MESH_RADIO_DEFAULT_GROUP, 3, 1),
                       0, 42)
    \/ Interrupt

SpecPower == InitOwn /\ [][NextPower]_vars

----------------------------------------------------------------------------
(* recv() against the interrupt handlers *)

\* recv() is between its NVIC_DisableIRQ and its NVIC_EnableIRQ.
InRecvCriticalSection == pc \in {"recv_unlink", "recv_dec", "recv_enable"}

\* A step of one of the two interrupt handlers: the receive handler clears
\* EVENTS_END and the guard timer handler stops the timer, in the middle of
\* whatever the foreground is doing.
HandlerStep ==
    \/ EVENTS_END /\ ~EVENTS_END' /\ pc' = pc
    \/ TimerExpiry

\* C14: from the statement of recv() that reads the head's next pointer to
\* the one that re-enables the interrupt, no handler runs and no frame is
\* appended; the head recv() read before is still the head it unlinks, the
\* list and the counter change by recv()'s own statements only, and the
\* counter equals the length of the list when the interrupt is re-enabled.
C14_RecvExcludesEnqueue ==
    [][ InRecvCriticalSection =>
          /\ ~HandlerStep
          /\ ~Appended
          /\ pc' = pc => UNCHANGED <<rxQueue, queueDepth>>
          /\ pc = "recv_unlink" /\ pc' # pc => /\ rxQueue # <<>>
                                               /\ p = Head(rxQueue)
                                               /\ rxQueue' = Tail(rxQueue)
                                               /\ queueDepth' = queueDepth
          /\ pc = "recv_dec" /\ pc' # pc => /\ rxQueue' = rxQueue
                                            /\ queueDepth' = queueDepth - 1
          /\ pc = "recv_enable" => /\ queueDepth = Len(rxQueue)
                                   /\ UNCHANGED <<rxQueue, queueDepth>>
      ]_vars

\* A frame has ended on the air and waits for its handler while recv() is
\* about to unlink the head of a list that has room.
C14_Witness ==
    /\ pc = "recv_unlink"
    /\ ~irqEnabled
    /\ EVENTS_END
    /\ queueDepth < MICROBIT_RADIO_MAXIMUM_RX_BUFFERS

\* C15: the list changes only by a frame appended behind all others or by
\* recv() removing its head; recv() returns the head it removed and lowers
\* queueDepth by one, and on an empty list it returns NULL and changes
\* nothing.
C15_Fifo ==
    [][ /\ rxQueue' # rxQueue =>
              \/ /\ Appended
                 /\ SubSeq(rxQueue', 1, Len(rxQueue)) = rxQueue
              \/ /\ pc = "recv_unlink"
                 /\ rxQueue # <<>>
                 /\ p = Head(rxQueue)
                 /\ rxQueue' = Tail(rxQueue)
        /\ pc = "recv_dec" /\ pc' # pc => queueDepth' = queueDepth - 1
        /\ pc = "recv_enable" /\ pc' # pc /\ caller = "app" =>
              ret' = [op |-> "recv", frame |-> p]
        /\ pc = "recv_read" /\ pc' # pc /\ caller = "app" /\ rxQueue = <<>> =>
              /\ ret' = [op |-> "recv", frame |-> NULL]
              /\ UNCHANGED <<driverVars, hwVars, dgVars, cfgVars>>
      ]_vars

\* recv() has returned an older frame and a different, newer one is now the
\* head of the list.
C15_Witness ==
    /\ ret.op = "recv"
    /\ ret.frame # NULL
    /\ rxQueue # <<>>
    /\ Head(rxQueue).protocol # ret.frame.protocol

----------------------------------------------------------------------------
(* The datagram queue *)

\* C16: the datagram queue never holds more than
\* MICROBIT_MESH_RADIO_MAXIMUM_RX_BUFFERS frames.
C16_DatagramAtMostFour == Len(dgQueue) <= MICROBIT_MESH_RADIO_MAXIMUM_RX_BUFFERS

----------------------------------------------------------------------------
(* send() *)

\* The calls send(buffer) refuses.
Rejected(buffer) ==
    \/ ble
    \/ buffer = NULL
    \/ buffer.length > MICROBIT_RADIO_MAX_PACKET_SIZE
                       + MICROBIT_RADIO_HEADER_SIZE - 1

\* C11: send(frame) returns DEVICE_NOT_SUPPORTED when BLE is running and
\* DEVICE_INVALID_PARAMETER when the frame is NULL or longer than
\* MICROBIT_RADIO_MAX_PACKET_SIZE + MICROBIT_RADIO_HEADER_SIZE - 1, and in
\* these cases changes nothing: not currentSeqNo, not the frame, not
\* PACKETPTR, not the interrupt enable state, nor anything else.
C11_SendRejects ==
    [][ \A buffer \in SendInputs :
          send(buffer) /\ Rejected(buffer) =>
            /\ ret' = [op    |-> "send",
                       code  |-> IF ble THEN DEVICE_NOT_SUPPORTED
                                 ELSE DEVICE_INVALID_PARAMETER,
                       frame |-> buffer]
            /\ UNCHANGED <<driverVars, hwVars, dgVars, cfgVars, pc>>
      ]_vars

\* After a frame was sent, send() has refused a frame that is too long.
C11_Witness ==
    /\ ret.op = "send"
    /\ ret.code = DEVICE_INVALID_PARAMETER
    /\ ret.frame # NULL
    /\ currentSeqNo > 0
    /\ Initialised

\* send() is between its NVIC_DisableIRQ and its NVIC_EnableIRQ.
InSendCriticalSection == pc \in {"send_seq", "send_tx", "send_rx", "send_enable"}

\* C12: from the statement of send() that follows NVIC_DisableIRQ to its
\* NVIC_EnableIRQ no handler runs: rxQueue, queueDepth and blockTransmit do
\* not change, rxBuf changes only by the peripheral writing a frame into it,
\* and PACKETPTR changes only by send()'s own statements.  PACKETPTR is the
\* outgoing frame when the transmission has completed and rxBuf again when
\* send() returns.
C12_SendExcludesHandlers ==
    [][ InSendCriticalSection =>
          /\ ~HandlerStep
          /\ UNCHANGED <<rxQueue, queueDepth, blockTransmit>>
          /\ rxBuf' # rxBuf => ~EVENTS_END /\ EVENTS_END' /\ pc' = pc
          /\ pc' = pc => PACKETPTR' = PACKETPTR
          /\ pc = "send_tx" /\ pc' # pc => PACKETPTR' = "buffer" /\ EVENTS_END'
          /\ pc = "send_rx" => PACKETPTR = "buffer"
          /\ pc = "send_enable" =>
                PACKETPTR = PointerTo(rxBuf) /\ PACKETPTR' = PACKETPTR
      ]_vars

\* The transmission of send() has completed on an enabled radio that has a
\* frame in its list.
C12_Witness ==
    /\ pc = "send_rx"
    /\ PACKETPTR = "buffer"
    /\ EVENTS_END
    /\ ~irqEnabled
    /\ Initialised
    /\ rxQueue # <<>>

\* C13: when send() has disabled the radio interrupt and is about to turn
\* the transceiver off, blockTransmit is false.
C13_NotBlockedWhenMasked ==
    pc \in {"send_seq", "send_tx"} => ~blockTransmit

\* A frame with a good checksum has ended after send() left its wait loop
\* and before it disables the interrupt: its handler runs next.
C13_Witness ==
    /\ pc = "send_disable"
    /\ irqEnabled
    /\ EVENTS_END
    /\ CRCSTATUS = 1

----------------------------------------------------------------------------
(* enable(), disable(), setFrequencyBand(), setSleep() *)

\* C17: with BLE running, enable() and disable() both return
\* DEVICE_NOT_SUPPORTED and change nothing, whether the radio is initialised
\* or not.
C17_BleRefusesEnableDisable ==
    [][ ble /\ ((\E allocOk \in BOOLEAN : enable(allocOk)) \/ disable) =>
          /\ ret'.code = DEVICE_NOT_SUPPORTED
          /\ UNCHANGED <<driverVars, hwVars, dgVars, cfgVars, pc>>
      ]_vars

\* C18: without BLE disable() returns DEVICE_OK and leaves the radio not
\* initialised, and a disable() of a radio that is not initialised changes
\* nothing: not the status, the configuration, the list, or the interrupt
\* enable state.  enable() of an initialised radio returns DEVICE_OK and
\* changes nothing.
C18_DisableEnableIdempotent ==
    [][ /\ disable /\ ~ble =>
              /\ ret' = [op |-> "disable", code |-> DEVICE_OK]
              /\ ~Initialised'
        /\ disable /\ ~ble /\ ~Initialised =>
              UNCHANGED <<driverVars, hwVars, dgVars, cfgVars, pc>>
        /\ (\E allocOk \in BOOLEAN : enable(allocOk)) /\ Initialised =>
              /\ ret' = [op |-> "enable", code |-> DEVICE_OK]
              /\ UNCHANGED <<driverVars, hwVars, dgVars, cfgVars, pc>>
      ]_vars

\* disable() has returned on a radio that was disabled before and whose
\* interrupt a send() had enabled since; a frame is in the list.
C18_Witness ==
    /\ ret = [op |-> "disable", code |-> DEVICE_OK]
    /\ ~Initialised
    /\ irqEnabled
    /\ rxQueue # <<>>

\* C19, as stated: setFrequencyBand(n) with n outside 0..100 returns
\* DEVICE_INVALID_PARAMETER and leaves band, FREQUENCY and the interrupt
\* enable state as they are; with n in 0..100 and BLE not running it
\* returns DEVICE_OK and band is n.
C19_BandRange ==
    [][ \A n \in BandInputs :
          setFrequencyBand(n) =>
            IF n < 0 \/ n > 100
            THEN /\ ret'.code = DEVICE_INVALID_PARAMETER
                 /\ UNCHANGED <<band, FREQUENCY, irqEnabled>>
            ELSE ~ble => ret'.code = DEVICE_OK /\ band' = n
      ]_vars

\* C19, amended: with BLE running setFrequencyBand(n) returns
\* DEVICE_NOT_SUPPORTED for every n and changes nothing; with BLE not
\* running it returns DEVICE_INVALID_PARAMETER for n outside 0..100, leaving
\* band, FREQUENCY and the interrupt enable state as they are, and DEVICE_OK
\* with band = n for n in 0..100.
C19_BandRangeWithoutBle ==
    [][ \A n \in BandInputs :
          setFrequencyBand(n) =>
            IF ble
            THEN /\ ret'.code = DEVICE_NOT_SUPPORTED
                 /\ UNCHANGED <<driverVars, hwVars, dgVars, cfgVars, pc>>
            ELSE IF n < 0 \/ n > 100
            THEN /\ ret'.code = DEVICE_INVALID_PARAMETER
                 /\ UNCHANGED <<band, FREQUENCY, irqEnabled>>
            ELSE ret'.code = DEVICE_OK /\ band' = n
      ]_vars

\* An initialised radio retuned to channel 100 has refused a band out of
\* range.
C19_Witness ==
    /\ ret = [op |-> "setFrequencyBand", code |-> DEVICE_INVALID_PARAMETER]
    /\ Initialised
    /\ band = 100
    /\ FREQUENCY = 100

\* The three lifecycle flags of a status.
LifecycleFlags(st) ==
    st \cap {MICROBIT_RADIO_STATUS_INITIALISED,
             MICROBIT_RADIO_STATUS_DEEPSLEEP_INIT,
             MICROBIT_RADIO_STATUS_DEEPSLEEP_IRQ}

\* setSleep(x) called twice in a row from the current state leaves the
\* lifecycle flags and the interrupt enable state as one call leaves them.
SleepTwiceIsOnce(x) ==
    \A a1 \in BOOLEAN, a2 \in BOOLEAN :
        LET r1 == setSleep_state(status, irqEnabled, x, rxBuf # NULL \/ a1)
            r2 == setSleep_state(r1.status, r1.irqEnabled, x,
                                 rxBuf # NULL \/ r1.call = "enable" \/ a2)
        IN  /\ LifecycleFlags(r2.status) = LifecycleFlags(r1.status)
            /\ r2.irqEnabled = r1.irqEnabled

\* Entering sleep twice is entering it once, in every state the radio
\* reaches.
SleepTwice == pc = "ready" /\ ~ble => SleepTwiceIsOnce(TRUE)

\* C20: in every state in which setSleep can be called, setSleep(x)
\* followed at once by setSleep(x) leaves the flags initialised,
\* deep-sleep-init and deep-sleep-irq and the interrupt enable state as a
\* single setSleep(x) leaves them, for x true and x false.
C20_SetSleepIdempotent ==
    pc = "ready" /\ ~ble => \A x \in BOOLEAN : SleepTwiceIsOnce(x)

\* The two deep-sleep flags of a status.
DeepSleepFlags(st) ==
    st \cap {MICROBIT_RADIO_STATUS_DEEPSLEEP_INIT,
             MICROBIT_RADIO_STATUS_DEEPSLEEP_IRQ}

\* C21: in every state in which setSleep can be called and acts (BLE not
\* running) and no deep-sleep flag is set, after setSleep(true) the radio is
\* not initialised and the radio interrupt is disabled, and after the
\* setSleep(false) that follows the initialised flag and the interrupt
\* enable state are what they were before and both deep-sleep flags are
\* clear.
C21_SleepRoundTrip ==
    pc = "ready" /\ ~ble /\ DeepSleepFlags(status) = {} =>
      \A a1 \in BOOLEAN, a2 \in BOOLEAN :
        LET r1 == setSleep_state(status, irqEnabled, TRUE, rxBuf # NULL \/ a1)
            r2 == setSleep_state(r1.status, r1.irqEnabled, FALSE,
                                 rxBuf # NULL \/ a2)
        IN  /\ MICROBIT_RADIO_STATUS_INITIALISED \notin r1.status
            /\ ~r1.irqEnabled
            /\ (MICROBIT_RADIO_STATUS_INITIALISED \in r2.status) = Initialised
            /\ r2.irqEnabled = irqEnabled
            /\ DeepSleepFlags(r2.status) = {}

\* Asleep by the second path: a disabled radio whose interrupt a send() had
\* enabled was put to sleep, which masked the interrupt and recorded it.
C21_Witness ==
    /\ ret = [op |-> "setSleep", code |-> DEVICE_OK]
    /\ status = {MICROBIT_RADIO_STATUS_DEEPSLEEP_IRQ}
    /\ ~irqEnabled
    /\ currentSeqNo > 0

----------------------------------------------------------------------------
(* Ownership of frame buffers *)

\* The addresses of the buffers linked into a list.
Members(q) == {q[i].addr : i \in 1..Len(q)}

\* C22: an initialised radio has an active buffer, and outside send() it
\* is what PACKETPTR points at; the active buffer is in neither list, and
\* no buffer is linked twice, into one list or into both.
C22_OneActiveBuffer ==
    /\ Initialised =>
          /\ rxBuf # NULL
          /\ ~InSendCriticalSection => PACKETPTR = "rxBuf"
    /\ rxBuf # NULL => rxBuf.addr \notin Members(rxQueue) \cup Members(dgQueue)
    /\ Cardinality(Members(rxQueue) \cup Members(dgQueue))
          = Len(rxQueue) + Len(dgQueue)

\* Buffers in both lists while the radio receives into a third.
C22_Witness ==
    /\ Initialised
    /\ listening
    /\ rxQueue # <<>>
    /\ dgQueue # <<>>
    /\ rxBuf.addr > 0

\* A run of mesh_RADIO_IRQHandler that calls queueRxBuf() with an active
\* buffer and room in the Receive Queue, so that the outcome is decided by
\* the allocation.
EnqueueAttempt ==
    /\ RadioEnd(0)
    /\ Initialised
    /\ rxBuf # NULL
    /\ queueDepth < MICROBIT_RADIO_MAXIMUM_RX_BUFFERS

\* C23: when the allocation in queueRxBuf() fails, DEVICE_NO_RESOURCES is
\* returned, rxBuf is the same buffer, rxQueue and queueDepth are unchanged
\* and the radio listens into that buffer again; whenever the allocation
\* succeeds, also after a failure, the frame in rxBuf is appended, counted
\* and replaced by a buffer at a new address.
C23_AllocationFailure ==
    [][/\ EnqueueAttempt /\ queueRet' = DEVICE_NO_RESOURCES =>
            /\ rxBuf' # NULL
            /\ rxBuf'.addr = rxBuf.addr
            /\ [rxBuf' EXCEPT !.rssi = rxBuf.rssi] = rxBuf
            /\ rxQueue' = rxQueue
            /\ queueDepth' = queueDepth
            /\ nextAddr' = nextAddr
            /\ PACKETPTR' = "rxBuf"
            /\ listening'
       /\ EnqueueAttempt /\ queueRet' = DEVICE_OK =>
            /\ rxQueue' = Append(rxQueue, [rxBuf EXCEPT !.rssi = rssi'])
            /\ queueDepth' = queueDepth + 1
            /\ rxBuf' # NULL
            /\ rxBuf'.addr = nextAddr
            /\ rxBuf'.addr \notin Members(rxQueue') \cup Members(dgQueue')
            /\ PACKETPTR' = "rxBuf"
            /\ listening'
       /\ EnqueueAttempt => queueRet' \in {DEVICE_OK, DEVICE_NO_RESOURCES}
      ]_vars

\* The only allocation so far is enable()'s, the enqueue failed for want of
\* a buffer, and the next frame has arrived in the same active buffer.
C23_Witness ==
    /\ queueRet = DEVICE_NO_RESOURCES
    /\ nextAddr = 2
    /\ rxQueue = <<>>
    /\ Initialised
    /\ irqEnabled
    /\ EVENTS_END
    /\ CRCSTATUS = 0

----------------------------------------------------------------------------
(* Configuration across disable() and enable() *)

\* C24: without BLE, disable() of an initialised radio clears the
\* initialised flag and masks the radio interrupt and leaves band, power
\* and group as they are; enable() of a radio that was disabled writes
\* exactly these band, power and group to FREQUENCY, TXPOWER and PREFIX0,
\* keeps the active buffer it has and allocates no other.
C24_ConfigurationPreserved ==
    [][ /\ disable /\ ~ble /\ Initialised =>
              /\ ~Initialised'
              /\ ~irqEnabled'
              /\ UNCHANGED <<band, power, group>>
        /\ (\E allocOk \in BOOLEAN : enable(allocOk))
             /\ ~ble /\ ~Initialised /\ rxBuf # NULL =>
              /\ Initialised'
              /\ ret' = [op |-> "enable", code |-> DEVICE_OK]
              /\ UNCHANGED <<band, power, group>>
              /\ FREQUENCY' = band
              /\ TXPOWER' = MICROBIT_RADIO_POWER_LEVEL[power + 1]
              /\ PREFIX0' = group
              /\ UNCHANGED <<rxBuf, nextAddr>>
              /\ PACKETPTR' = "rxBuf"
      ]_vars

\* A disabled radio that has its buffer, and whose band, power and group
\* are not the constructor's; the band was set since the radio was
\* disabled, so FREQUENCY still has the old one.
C24_Witness ==
    /\ ~Initialised
    /\ ~irqEnabled
    /\ ~ble
    /\ rxBuf # NULL
    /\ band = 100
    /\ FREQUENCY = MICROBIT_MESH_RADIO_DEFAULT_FREQUENCY
    /\ power = 7
    /\ group = 1

----------------------------------------------------------------------------
(* idleCallback() *)

\* The frames appended to rxQueue so far: each one took a new buffer, and
\* enable() took the first.
Enqueued == nextAddr - 2

InDrain == pc \notin {"ready"}

\* idleCallback() has met a frame and the frame is still linked.
BeforeUnlink ==
    \/ pc \in {"recv_read", "recv_disable", "recv_unlink"}
    \/ pc = "idle_check" /\ pIsHead

\* C25: with no interrupt arriving, idleCallback() returns, and then
\* rxQueue is empty and queueDepth is 0; at every test of the loop
\* condition each frame met so far has left rxQueue and no other has, so
\* each iteration removes one frame, by the handler's recv() or by the
\* forced one, and never two.
C25_DrainTerminates ==
    /\ [](InDrain =>
            Len(routed) + Len(rxQueue)
              = Enqueued + (IF BeforeUnlink THEN 1 ELSE 0))
    /\ (pc = "idle_loop") ~> (pc = "ready" /\ rxQueue = <<>> /\ queueDepth = 0)

\* idleCallback() has returned after it met a frame of each kind.
C25_Witness ==
    /\ pc = "ready"
    /\ rxQueue = <<>>
    /\ queueDepth = 0
    /\ {routed[i].to : i \in 1..Len(routed)} = {"datagram", "event", "notify"}

\* The handler idleCallback() is to choose for a frame of a protocol.
HandlerOf(proto) ==
    CASE proto = MICROBIT_MESH_RADIO_PROTOCOL_DATAGRAM -> "datagram"
      [] proto = MICROBIT_MESH_RADIO_PROTOCOL_EVENTBUS -> "event"
      [] OTHER -> "notify"

\* The addresses of the buffers idleCallback() gave to handler h.
RoutedTo(h) == {routed[i].addr : i \in {j \in 1..Len(routed) : routed[j].to = h}}

\* C26: idleCallback() meets the queued frames in the order they were
\* queued, each once (the i-th frame queued is the i-th it meets), and
\* gives a frame of protocol 1 to the datagram handler, of protocol 2 to
\* the event handler and of any other protocol to neither: such a frame is
\* announced and released, recv() is called for it by idleCallback()
\* itself, and it never enters the datagram queue, which holds frames of
\* protocol 1 that went to the datagram handler and nothing else.
C26_RoutedByProtocol ==
    /\ \A i \in 1..Len(routed) :
          /\ routed[i].addr = i
          /\ routed[i].to = HandlerOf(routed[i].protocol)
    /\ \A j \in 1..Len(dgQueue) :
          /\ dgQueue[j].protocol = MICROBIT_MESH_RADIO_PROTOCOL_DATAGRAM
          /\ dgQueue[j].addr \in RoutedTo("datagram")
    /\ InDrain /\ routed # <<>> =>
          /\ Last(routed).to = "notify" => caller \in {"none", "idle"}
          /\ Last(routed).to = "datagram" => caller \in {"none", "datagram"}
          /\ Last(routed).to = "event" => caller \in {"none", "event"}
    /\ ~InDrain =>
          Members(rxQueue) \cap (RoutedTo("datagram") \cup RoutedTo("event")
                                   \cup RoutedTo("notify")) = {}

\* idleCallback() has returned after it met four frames or more, of every
\* kind, and the datagram queue holds some of them.
C26_Witness ==
    /\ pc = "ready"
    /\ Len(routed) >= 4
    /\ RoutedTo("event") # {}
    /\ RoutedTo("notify") # {}
    /\ dgQueue # <<>>
    /\ Len(dgQueue) < Cardinality(RoutedTo("datagram")) + 1

----------------------------------------------------------------------------
(* The guard window *)

C28_RejectedFrameDiscarded ==
    [][ RadioEnd(1) /\ ~compareSeqNo(rxBuf.seqNo).isGood =>
          /\ ~timerRunning'
          /\ listening'
          /\ PACKETPTR' = "rxBuf"
          /\ UNCHANGED <<rxBuf, rssi, rxQueue, queueDepth, blockTransmit,
                         currentSeqNo, queueRet, nextAddr>>
      ]_vars

\* The handler has run for a frame with a good checksum and a sequence
\* number above the reference value, which is still in the active buffer
\* while frames queued before wait in the list.
C28_Witness ==
    /\ Initialised
    /\ CRCSTATUS = 1
    /\ ~EVENTS_END
    /\ listening
    /\ rxBuf.seqNo > currentSeqNo
    /\ rxQueue # <<>>
    /\ rssi = 0

----------------------------------------------------------------------------
(* The transmit sequence counter *)

\* C29: the statement of send() that numbers the frame adds one to
\* currentSeqNo and the frame's seqNo is the new value; it is greater than
\* the seqNo of the frame the send() before it returned, also when the
\* counter passes 255 and when frames were received in between.
C29_StampedIncreasing ==
    [][ pc = "send_seq" /\ pc' = "send_tx" =>
          /\ currentSeqNo' = currentSeqNo + 1
          /\ txBuf'.seqNo = currentSeqNo'
          /\ (ret.op = "send" /\ ret.code = DEVICE_OK =>
                txBuf'.seqNo > ret.frame.seqNo)
      ]_vars

\* C30: currentSeqNo changes in one place, the statement of send() that
\* numbers the frame; no step of a handler, of compareSeqNo(), of
\* queueRxBuf(), of recv() or of idleCallback() changes it.
C30_CounterWrittenBySendOnly ==
    [][ currentSeqNo' # currentSeqNo =>
          /\ pc = "send_seq"
          /\ pc' = "send_tx"
          /\ currentSeqNo' = currentSeqNo + 1
      ]_vars

\* Before any send(): the radio handler has run for a frame with a good
\* checksum and a sequence number above the counter, frames were queued,
\* and the counter is as the constructor left it.
C30_Witness ==
    /\ Initialised
    /\ pc = "ready"
    /\ CRCSTATUS = 1
    /\ ~EVENTS_END
    /\ rxBuf.seqNo = 1
    /\ currentSeqNo = 0
    /\ rxQueue # <<>>

----------------------------------------------------------------------------
(* The interrupt of a disabled radio *)

\* C31: on a radio that disable() has disabled (it has its buffer, is not
\* initialised and not asleep) the radio interrupt, once masked, is enabled
\* again only by a call that initialises the radio; recv() and send() leave
\* it masked.
C31_DisabledStaysMasked ==
    [][ /\ ~Initialised
        /\ rxBuf # NULL
        /\ DeepSleepFlags(status) = {}
        /\ ~irqEnabled
        /\ irqEnabled'
        => Initialised' ]_vars

----------------------------------------------------------------------------
(* The datagram layer *)

\* C32: every len that datagram.send(buffer, len) lets pass its own test is
\* at most MICROBIT_RADIO_MAX_PACKET_SIZE, the size of buf.payload, so that
\* the bytes copied all lie in the payload, and buf.length is
\* len + MICROBIT_MESH_RADIO_HEADER_SIZE - 1, not that number modulo 256.
C32_DatagramSendFits ==
    [][ \A len \in DatagramSendLens :
          LET d == datagram_send(Payload(DatagramBytes), len)
          IN  datagram_send_call(len) /\ d.code = DEVICE_OK =>
                /\ len <= MICROBIT_RADIO_MAX_PACKET_SIZE
                /\ Len(d.buf.payload) <= MICROBIT_RADIO_MAX_PACKET_SIZE
                /\ d.buf.length = len + MICROBIT_MESH_RADIO_HEADER_SIZE - 1
      ]_vars

\* C33: recv(buf, len) called with a buffer, a len that is not negative and
\* a datagram queue that is not empty returns a number l with 0 <= l <= len,
\* whatever the length byte of the frame at the head; called with no buffer,
\* a negative len or an empty queue it returns DEVICE_INVALID_PARAMETER and
\* the datagram queue is as it was.
C33_DatagramRecvBounded ==
    [][ \A bufOk \in BOOLEAN, len \in DatagramRecvLens :
          datagram_recv(bufOk, len) =>
            IF ~bufOk \/ len < 0 \/ dgQueue = <<>>
            THEN /\ ret'.code = DEVICE_INVALID_PARAMETER
                 /\ dgQueue' = dgQueue
            ELSE /\ ~ret'.fault
                 /\ 0 <= ret'.code
                 /\ ret'.code <= len
      ]_vars

----------------------------------------------------------------------------
(* Conservation of frames: the radio receives until the heap has handed   *)
(* out MaxLive - 1 buffers, the idle task drains, and the application     *)
(* reads datagrams and takes a frame with recv().                         *)

\* nextAddr when the last buffer has been handed out.
MaxLive == 11

\* The frames the application takes with recv().
MaxTaken == 1

\* The frames of an unknown protocol idleCallback() has met when the last
\* of them arrives.
MaxUnknown == 1

NextConserve ==
    \/ \E allocOk \in BOOLEAN : enable(allocOk)
    \/ \E proto \in Protocols :
          /\ pc = "ready"
          /\ nextAddr < MaxLive
          /\ proto # MICROBIT_MESH_RADIO_PROTOCOL_DATAGRAM
                => Cardinality(RoutedTo("notify")) < MaxUnknown
          /\ ReceiveOther(OtherFrame(MICROBIT_MESH_RADIO_DEFAULT_GROUP,
                                     proto, 1), 0, 42)
    \/ pc = "ready" /\ Interrupt
    \/ Cardinality(taken) < MaxTaken /\ rxQueue # <<>> /\ recv
    \/ idleCallback
    \/ DrainStep
    \/ datagram_recv(TRUE, MaxPayload)

SpecConserve == InitOwn /\ [][NextConserve]_vars

\* The addresses operator new has returned.
Addresses == 1..(nextAddr - 1)

\* The buffer recv() has unlinked and not yet returned, or the one
\* datagram.packetReceived() got from recv() and has not yet linked.
InTransit ==
    IF p # NULL /\ pc \in {"recv_dec", "recv_enable", "dg_queue"}
    THEN {p.addr}
    ELSE {}

\* The places a buffer can be in, as sets of addresses.
Place(pl) ==
    CASE pl = "active"   -> IF rxBuf = NULL THEN {} ELSE {rxBuf.addr}
      [] pl = "rxQueue"  -> Members(rxQueue)
      [] pl = "dgQueue"  -> Members(dgQueue)
      [] pl = "consumer" -> taken \cup InTransit
      [] pl = "released" -> BagToSet(released)

Places == {"active", "rxQueue", "dgQueue", "consumer", "released"}

\* Every buffer is in one place, once.
Conserved ==
    /\ \A a \in Addresses :
          Cardinality({pl \in Places : a \in Place(pl)}) = 1
    /\ Cardinality(Members(rxQueue)) = Len(rxQueue)
    /\ Cardinality(Members(dgQueue)) = Len(dgQueue)
    /\ \A a \in BagToSet(released) : CopiesIn(a, released) = 1

\* The buffers the driver and the datagram service own.
Live == Place("active") \cup Place("rxQueue") \cup Place("dgQueue")

\* C34: every buffer ever allocated is in exactly one of the active buffer,
\* the Receive Queue, the datagram queue, the hands of a consumer that
\* dequeued it, and the released ones; none is released twice and none that
\* was released is still the active buffer or linked in a queue; so the
\* active buffer and the two queues never hold more buffers than one plus
\* the bound of each queue.
C34_FrameConservation ==
    /\ Conserved
    /\ Cardinality(Live) <= 1 + MICROBIT_RADIO_MAXIMUM_RX_BUFFERS
                              + MICROBIT_MESH_RADIO_MAXIMUM_RX_BUFFERS

====
